---- MODULE Spec2Model ----
(***************************************************************************)
(* Net match-play scoring of GSPro-Scoring (src/app): stroke allocation,   *)
(* scorecard rows, bonus classification, the match-result life cycle       *)
(* (create, record holes, finalize, reset, bonus) and the standings cache. *)
(*                                                                         *)
(* Units.  Points, bonuses, handicap strokes and net scores are multiples  *)
(* of 0.5 in the code (Python floats).  Here every such quantity is the    *)
(* integer number of HALF units: 1.0 is 2, 0.5 is 1, 4.5 is 9, 5 is 10.    *)
(* Gross scores, handicaps, hole numbers and hole counts are plain         *)
(* integers as in the code.                                                *)
(*                                                                         *)
(* Python None is the empty tuple None, a present value x is Some(x).      *)
(***************************************************************************)
EXTENDS Integers, Sequences, FiniteSets, TLC

None == <<>>

Some(x) == <<x>>

IsSome(v) == v # <<>>

Val(v) == v[1]

Abs(x) == IF x < 0 THEN -x ELSE x

RECURSIVE SumSeq(_)
SumSeq(s) == IF s = <<>> THEN 0 ELSE Head(s) + SumSeq(Tail(s))

RECURSIVE SumOver(_, _)
SumOver(f, S) ==
    IF S = {} THEN 0
    ELSE LET x == CHOOSE y \in S : TRUE IN f[x] + SumOver(f, S \ {x})

Range(s) == {s[i] : i \in DOMAIN s}

(***************************************************************************)
(* Bounds of the model.                                                    *)
(***************************************************************************)
\* Player handicaps range over 0..MaxHandicap.
MaxHandicap == 2

\* Course layouts 0..MaxLayout: layout k makes hole k+1 the hardest hole.
MaxLayout == 1

\* Gross scores submitted for a hole range over MinGross..MaxGross.
MinGross == 3

MaxGross == 4

\* Point totals handed to the bonus functions range over 0..MaxPoints half
\* units (12 is 6.0 points).
MaxPoints == 12

\* Recorded hole counts handed to the bonus gate range over 0..MaxRecorded.
MaxRecorded == 19

\* Stroke differentials handed to _stroke_allocation: 0..MaxStrokes half units.
MaxStrokes == 7

\* Hole lists handed to _stroke_allocation have 1..MaxListHoles holes, with
\* hole numbers and stroke indexes in 1..MaxListHoles.
MaxListHoles == 3

\* Strokes by which a stored net may differ from its gross: 0..MaxStoredStrokes
\* half units.
MaxStoredStrokes == 1

\* Runs of the system serve at most MaxRequests requests.
MaxRequests == 4

\* Number of holes of the short course (a course with fewer holes than an
\* 18-hole match plays).
ShortCourseSize == 9

\* Runs of the foursome pairing serve at most MaxFoursomeRequests requests.
MaxFoursomeRequests == 3

\* Requests served in one run of the standings page.
MaxStandingsRequests == 4

(***************************************************************************)
(* Program constants.                                                      *)
(***************************************************************************)
\* The default course has holes 1..18 (range(1, 19)).
CourseSize == 18

(***************************************************************************)
(* settings.py: bonus rule and outcome                                     *)
(***************************************************************************)
\* Variant: the 1.0 bonus goes to every side with 5 points or more, winner or not.
bonus_for_points_any_side(points, opponent_points) ==
    IF points >= 10 THEN 2
    ELSE IF points = opponent_points /\ points >= 9 THEN 1
    ELSE 0

\* Variant: the 0.5 bonus goes to a tie at exactly 4.5 points only.
bonus_for_points_tie_exact(points, opponent_points) ==
    IF points > opponent_points /\ points >= 10 THEN 2
    ELSE IF points = opponent_points /\ points = 9 THEN 1
    ELSE 0

bonus_for_points(points, opponent_points) ==
    IF points > opponent_points /\ points >= 10 THEN 2
    ELSE IF points = opponent_points /\ points >= 9 THEN 1
    ELSE 0

compute_bonus_points(player_a_points, player_b_points, allow_bonus) ==
    IF ~allow_bonus THEN <<0, 0>>
    ELSE << bonus_for_points(player_a_points, player_b_points),
            bonus_for_points(player_b_points, player_a_points) >>

\* Variant: equal points are reported as a win of side A.
score_outcome_tie_to_a(player_a_points, player_b_points) ==
    LET bonus == compute_bonus_points(player_a_points, player_b_points, TRUE)
    IN  [ player_a_points |-> player_a_points,
          player_b_points |-> player_b_points,
          player_a_bonus  |-> bonus[1],
          player_b_bonus  |-> bonus[2],
          player_a_total  |-> player_a_points + bonus[1],
          player_b_total  |-> player_b_points + bonus[2],
          winner          |-> IF player_a_points >= player_b_points THEN "A" ELSE "B" ]

score_outcome(player_a_points, player_b_points) ==
    LET winner == IF player_a_points > player_b_points THEN "A"
                  ELSE IF player_a_points < player_b_points THEN "B"
                  ELSE "T"
        bonus == compute_bonus_points(player_a_points, player_b_points, TRUE)
    IN  [ player_a_points |-> player_a_points,
          player_b_points |-> player_b_points,
          player_a_bonus  |-> bonus[1],
          player_b_bonus  |-> bonus[2],
          player_a_total  |-> player_a_points + bonus[1],
          player_b_total  |-> player_b_points + bonus[2],
          winner          |-> winner ]

(***************************************************************************)
(* main.py: bonus eligibility gate and override                            *)
(***************************************************************************)
\* Variant: the gate without the 9 and 18 milestones.
_bonus_allowed_no_milestone(recorded_count, expected_length) ==
    recorded_count >= expected_length

_bonus_allowed(recorded_count, expected_length) ==
    IF recorded_count >= expected_length THEN TRUE
    ELSE recorded_count \in {9, 18}

\* bonus_override is None or Some([player_a_bonus |-> x, player_b_bonus |-> y]);
\* a fetched override is a two-key dict, hence truthy whenever present.
_apply_bonus_constraints(outcome, total_a, total_b, recorded_holes, match_length, bonus_override) ==
    IF ~_bonus_allowed(recorded_holes, match_length)
    THEN [ outcome EXCEPT !.player_a_bonus = 0,
                          !.player_b_bonus = 0,
                          !.player_a_total = total_a,
                          !.player_b_total = total_b ]
    ELSE LET player_a_bonus == IF IsSome(bonus_override)
                               THEN Val(bonus_override).player_a_bonus
                               ELSE outcome.player_a_bonus
             player_b_bonus == IF IsSome(bonus_override)
                               THEN Val(bonus_override).player_b_bonus
                               ELSE outcome.player_b_bonus
         IN  [ outcome EXCEPT !.player_a_bonus = player_a_bonus,
                              !.player_b_bonus = player_b_bonus,
                              !.player_a_total = total_a + player_a_bonus,
                              !.player_b_total = total_b + player_b_bonus ]

(***************************************************************************)
(* main.py: stroke allocation                                              *)
(*                                                                         *)
(* A course hole is [hole_number, par, handicap]; "handicap" is the hole's *)
(* stroke index, 1 being the hardest hole.                                 *)
(***************************************************************************)
\* Python's stable sorted(): x goes behind every element whose key is <= its own.
RECURSIVE InsertAfterEqual(_, _, _)
InsertAfterEqual(s, x, field) ==
    IF s = <<>> THEN <<x>>
    ELSE IF x[field] < Head(s)[field] THEN <<x>> \o s
    ELSE <<Head(s)>> \o InsertAfterEqual(Tail(s), x, field)

RECURSIVE sorted(_, _)
sorted(s, field) ==
    IF s = <<>> THEN <<>>
    ELSE InsertAfterEqual(sorted(SubSeq(s, 1, Len(s) - 1), field), s[Len(s)], field)

\* The while loop of _stroke_allocation: one whole stroke (2 half units) per
\* visited hole while at least one whole stroke remains, then the last half.
RECURSIVE _stroke_allocation_loop(_, _, _, _)
_stroke_allocation_loop(allocation, remainder, idx, sorted_holes) ==
    IF remainder > 0 /\ sorted_holes # <<>>
    THEN LET hole == sorted_holes[(idx % Len(sorted_holes)) + 1]
             increment == IF remainder >= 2 THEN 2 ELSE 1
         IN  _stroke_allocation_loop(
                 [allocation EXCEPT ![hole.hole_number] = @ + increment],
                 remainder - increment, idx + 1, sorted_holes)
    ELSE allocation

\* total_strokes in half units; the result maps hole_number to half units.
_stroke_allocation(total_strokes, course_holes) ==
    IF course_holes = <<>> THEN <<>>
    ELSE LET hole_count == Len(course_holes)
             base == IF total_strokes > 0
                     THEN total_strokes \div (2 * hole_count)
                     ELSE 0
             remainder == total_strokes - (2 * base * hole_count)
             allocation == [n \in {course_holes[i].hole_number : i \in DOMAIN course_holes}
                               |-> 2 * base]
         IN  _stroke_allocation_loop(allocation, remainder, 0, sorted(course_holes, "handicap"))

\* dict.get(number, 0.0)
StrokesGet(allocation, number) ==
    IF number \in DOMAIN allocation THEN allocation[number] ELSE 0

(***************************************************************************)
(* main.py: scorecard rows                                                 *)
(*                                                                         *)
(* A hole entry is [hole_number, player_a_score, player_b_score,           *)
(* player_a_net, player_b_net]: gross scores are integers, the stored nets *)
(* are optional half-unit values.                                          *)
(***************************************************************************)
\* {entry["hole_number"]: entry for entry in holes}: the last entry wins.
HoleMap(holes) ==
    [n \in {holes[i].hole_number : i \in DOMAIN holes} |->
        LET last == CHOOSE i \in DOMAIN holes :
                        /\ holes[i].hole_number = n
                        /\ \A j \in DOMAIN holes : holes[j].hole_number = n => j <= i
        IN  holes[last]]

MaxRecordedHole(holes) ==
    IF holes = <<>> THEN 0
    ELSE CHOOSE m \in {holes[i].hole_number : i \in DOMAIN holes} :
             \A i \in DOMAIN holes : holes[i].hole_number <= m

\* The walk that collects hole_limit holes from start_index, wrapping around.
RECURSIVE ActiveCourseWalk(_, _, _)
ActiveCourseWalk(sorted_course, idx, remaining) ==
    IF remaining = 0 THEN <<>>
    ELSE <<sorted_course[idx + 1]>>
            \o ActiveCourseWalk(sorted_course, (idx + 1) % Len(sorted_course), remaining - 1)

\* hole_numbers.index(normalized_start)
StartIndex(hole_numbers, normalized_start) ==
    (CHOOSE i \in DOMAIN hole_numbers :
        /\ hole_numbers[i] = normalized_start
        /\ \A j \in 1..(i - 1) : hole_numbers[j] # normalized_start) - 1

NormalizedStartIndex(hole_numbers, selected_start_hole) ==
    StartIndex(hole_numbers, IF selected_start_hole \in Range(hole_numbers)
                             THEN selected_start_hole
                             ELSE hole_numbers[1])

\* The holes of the sorted course that the match plays, from the start hole on.
ActiveCourseFrom(sorted_course, hole_limit, selected_start_hole) ==
    IF sorted_course = <<>> THEN <<>>
    ELSE ActiveCourseWalk(sorted_course,
             NormalizedStartIndex([i \in DOMAIN sorted_course |-> sorted_course[i].hole_number],
                                  selected_start_hole),
             hole_limit)

ActiveCourse(course_holes, hole_limit, selected_start_hole) ==
    ActiveCourseFrom(sorted(course_holes, "hole_number"), hole_limit, selected_start_hole)

\* Variant: a halved hole gives a whole point to each side.
HolePoints_halved_whole(net_a, net_b) ==
    IF IsSome(net_a) /\ IsSome(net_b)
    THEN LET diff == Val(net_a) - Val(net_b)
         IN  IF diff < 0
             THEN [result |-> "A", net_diff |-> Some(diff), points_a_display |-> Some(2),
                   points_b_display |-> None, points_a_value |-> 2, points_b_value |-> 0]
             ELSE IF diff > 0
             THEN [result |-> "B", net_diff |-> Some(diff), points_a_display |-> None,
                   points_b_display |-> Some(2), points_a_value |-> 0, points_b_value |-> 2]
             ELSE [result |-> "Halved", net_diff |-> Some(diff), points_a_display |-> Some(2),
                   points_b_display |-> Some(2), points_a_value |-> 2, points_b_value |-> 2]
    ELSE [result |-> "--", net_diff |-> None, points_a_display |-> None,
          points_b_display |-> None, points_a_value |-> 0, points_b_value |-> 0]

\* Result and point values of one hole from its two nets (half units).
HolePoints(net_a, net_b) ==
    IF IsSome(net_a) /\ IsSome(net_b)
    THEN LET diff == Val(net_a) - Val(net_b)
         IN  IF diff < 0
             THEN [result |-> "A", net_diff |-> Some(diff), points_a_display |-> Some(2),
                   points_b_display |-> None, points_a_value |-> 2, points_b_value |-> 0]
             ELSE IF diff > 0
             THEN [result |-> "B", net_diff |-> Some(diff), points_a_display |-> None,
                   points_b_display |-> Some(2), points_a_value |-> 0, points_b_value |-> 2]
             ELSE [result |-> "Halved", net_diff |-> Some(diff), points_a_display |-> Some(1),
                   points_b_display |-> Some(1), points_a_value |-> 1, points_b_value |-> 1]
    ELSE [result |-> "--", net_diff |-> None, points_a_display |-> None,
          points_b_display |-> None, points_a_value |-> 0, points_b_value |-> 0]

\* Variant: the net is the gross, strokes are not subtracted.
NetScore_gross_only(stored_net, gross, strokes) ==
    IF IsSome(stored_net) THEN stored_net
    ELSE IF IsSome(gross) THEN Some(2 * Val(gross))
    ELSE None

\* Net of one side on one hole: the stored net when there is one, otherwise
\* gross minus strokes when the gross is present, otherwise absent.
NetScore(stored_net, gross, strokes) ==
    IF IsSome(stored_net) THEN stored_net
    ELSE IF IsSome(gross) THEN Some(2 * Val(gross) - strokes)
    ELSE None

ScorecardRow(hole, hole_map, strokes_for_a, strokes_for_b) ==
    LET number == hole.hole_number
        recorded == number \in DOMAIN hole_map
        gross_a == IF recorded THEN Some(hole_map[number].player_a_score) ELSE None
        gross_b == IF recorded THEN Some(hole_map[number].player_b_score) ELSE None
        stored_net_a == IF recorded THEN hole_map[number].player_a_net ELSE None
        stored_net_b == IF recorded THEN hole_map[number].player_b_net ELSE None
        strokes_a == StrokesGet(strokes_for_a, number)
        strokes_b == StrokesGet(strokes_for_b, number)
        net_a == NetScore(stored_net_a, gross_a, strokes_a)
        net_b == NetScore(stored_net_b, gross_b, strokes_b)
        pts == HolePoints(net_a, net_b)
    IN  [ hole_number |-> number,
          par         |-> hole.par,
          handicap    |-> hole.handicap,
          gross_a     |-> gross_a,
          gross_b     |-> gross_b,
          strokes_a   |-> strokes_a,
          strokes_b   |-> strokes_b,
          net_a       |-> net_a,
          net_b       |-> net_b,
          net_diff    |-> pts.net_diff,
          result      |-> pts.result,
          points_a    |-> pts.points_a_display,
          points_b    |-> pts.points_b_display ]

\* The loop over active_course that appends one row per hole.
ScorecardRows(active_course, hole_map, strokes_for_a, strokes_for_b) ==
    [i \in DOMAIN active_course |->
        ScorecardRow(active_course[i], hole_map, strokes_for_a, strokes_for_b)]

\* totals["points_a"] and totals["points_b"], accumulated row by row.
RowPointTotals(rows) ==
    [ points_a |-> SumSeq([i \in DOMAIN rows |->
                       HolePoints(rows[i].net_a, rows[i].net_b).points_a_value]),
      points_b |-> SumSeq([i \in DOMAIN rows |->
                       HolePoints(rows[i].net_a, rows[i].net_b).points_b_value]) ]

\* strokes_for_a / strokes_for_b: the allocation for the side that receives
\* strokes, zero on every hole for the other side.
StrokesFor(receives, total_strokes, active_course) ==
    IF receives THEN _stroke_allocation(total_strokes, active_course)
    ELSE [n \in {active_course[i].hole_number : i \in DOMAIN active_course} |-> 0]

\* The returned dictionary.
ScorecardOf(rows, totals, active_course, stroke_diff, total_strokes, hole_limit, selected_start_hole) ==
    [ rows   |-> rows,
      course |-> active_course,
      meta   |-> [ stroke_owner   |-> IF stroke_diff > 0 THEN Some("A")
                                      ELSE IF stroke_diff < 0 THEN Some("B") ELSE None,
                   stroke_count   |-> total_strokes,
                   is_nine_hole   |-> hole_limit = 9,
                   match_length   |-> hole_limit,
                   total_points_a |-> totals.points_a,
                   total_points_b |-> totals.points_b,
                   strokes_a      |-> IF stroke_diff > 0 THEN total_strokes ELSE 0,
                   strokes_b      |-> IF stroke_diff < 0 THEN total_strokes ELSE 0,
                   start_hole     |-> selected_start_hole ] ]

ScorecardOfRows(rows, active_course, stroke_diff, total_strokes, hole_limit, selected_start_hole) ==
    ScorecardOf(rows, RowPointTotals(rows), active_course, stroke_diff, total_strokes,
                hole_limit, selected_start_hole)

ScorecardOnCourse(holes, active_course, stroke_diff, total_strokes, hole_limit, selected_start_hole) ==
    ScorecardOfRows(ScorecardRows(active_course, HoleMap(holes),
                                  StrokesFor(stroke_diff > 0, total_strokes, active_course),
                                  StrokesFor(stroke_diff < 0, total_strokes, active_course)),
                    active_course, stroke_diff, total_strokes, hole_limit, selected_start_hole)

ScorecardWithLimit(holes, stroke_diff, course_holes, hole_limit, selected_start_hole) ==
    ScorecardOnCourse(holes, ActiveCourse(course_holes, hole_limit, selected_start_hole),
                      stroke_diff,
                      IF hole_limit = 9 THEN Abs(stroke_diff) ELSE 2 * Abs(stroke_diff),
                      hole_limit, selected_start_hole)

_build_scorecard_rows(holes, handicap_a, handicap_b, course_holes, match_length, start_hole) ==
    ScorecardWithLimit(holes, handicap_a - handicap_b, course_holes,
                       IF match_length \in {9, 18} THEN match_length
                       ELSE IF MaxRecordedHole(holes) # 0 /\ MaxRecordedHole(holes) <= 9
                            THEN 9 ELSE 18,
                       IF start_hole = 0 THEN 1 ELSE start_hole)

\* SCORING_PIN when the environment does not set it (load_settings).
DefaultPin == "1234"

(***************************************************************************)
(* State                                                                   *)
(***************************************************************************)
VARIABLES
    players,             \* players table: name -> handicap
    course_holes,        \* course reference data of the tournament's tee
    match,               \* the scheduled pairing: hole_count, start_hole, finalized
    match_result,        \* match_results row of the pairing: None or Some(row)
    hole_scores,         \* hole_scores table: hole_number -> legacy row
    player_hole_scores,  \* player_hole_scores table: hole_number -> gross and net per player
    match_bonus,         \* match_bonus row: None or Some([player_a_bonus, player_b_bonus])
    standings_cache,     \* standings_cache table: player name -> entry
    response,            \* what the last request answered
    requests,            \* number of requests served so far
    cd_match_result,     \* foursome: match_results row of the C-vs-D sub-match
    cd_player_hole_scores, \* foursome: player_hole_scores rows of the C-vs-D result
    cd_match_bonus,      \* foursome: match_bonus row of the C-vs-D result
    cd_finalized_results, \* foursome: the C-vs-D rows finalize_match inserted, each with its bonus row
    divisions,           \* players table: name -> division
    match_results,       \* standings page: results stored by POST /api/scores, in insertion order
    scoring_pin,         \* settings.scoring_pin, loaded once when the service starts
    in_flight,           \* hole submissions being served at once: each one's payload and position
    arg,                 \* function-level runs: the call being made
    ret                  \* function-level runs: its return value, None before the call

\* The rows that only a foursome pairing has.
cdvars == << cd_match_result, cd_player_hole_scores, cd_match_bonus,
            cd_finalized_results >>

\* What only the services that store whole results (POST /api/scores) read.
tvars == << divisions, match_results, scoring_pin, in_flight >>

vars == << players, course_holes, match, match_result, hole_scores, player_hole_scores,
           match_bonus, standings_cache, response, requests, cdvars, tvars, arg, ret >>

sysvars == << players, course_holes, match, match_result, hole_scores, player_hole_scores,
              match_bonus, standings_cache, response, requests, cdvars, tvars >>

PlayerNames == {"P1", "P2"}

Handicaps == 0..MaxHandicap

\* A course of `size` holes numbered 1..size; in layout k hole k+1 has stroke
\* index 1, hole k+2 stroke index 2, and so on around the course.
CourseHoles(size, layout) ==
    [n \in 1..size |->
        [hole_number |-> n, par |-> 4, handicap |-> ((n - 1 + size - layout) % size) + 1]]

\* Layout 0 of the full course is the default course of _load_course_holes.
Courses ==
    {CourseHoles(CourseSize, k) : k \in 0..MaxLayout} \cup {CourseHoles(ShortCourseSize, 0)}

MatchLengths == {9, 18}

StartHoles == {1, 10}

EmptyDict == [x \in {} |-> x]

NoResponse == [op |-> "none", status |-> 0]

(***************************************************************************)
(* db.py: rows, JSON columns and hole records                              *)
(*                                                                         *)
(* A match_results row is [player_a_name, player_b_name, player_a_points,  *)
(* player_b_points, player_a_bonus, player_b_bonus, player_a_total,        *)
(* player_b_total, winner, player_a_handicap, player_b_handicap,           *)
(* hole_count, start_hole, finalized, course_snapshot, scorecard_snapshot].*)
(* Rows of hole_scores and player_hole_scores are kept per hole number as  *)
(* [player_a_score, player_b_score, player_a_net, player_b_net].           *)
(***************************************************************************)
\* dict.get(key): None when the dict has no such key.
Get(d, key) == IF key \in DOMAIN d THEN Some(d[key]) ELSE None

\* Python "x or y" on numbers.
PyOr(x, y) == IF x # 0 THEN x ELSE y

\* json.dumps: the column holds a str, not the dict it was made from.
json_dumps(value) == [json |-> value]

IsStr(value) == "json" \in DOMAIN value

\* value is None or Some(dict).
_json_value(value) == IF value = None THEN None ELSE Some(json_dumps(Val(value)))

RECURSIVE SortedSeqOf(_)
SortedSeqOf(S) ==
    IF S = {} THEN <<>>
    ELSE LET m == CHOOSE x \in S : \A y \in S : x <= y
         IN  <<m>> \o SortedSeqOf(S \ {m})

\* SELECT ... ORDER BY hole_number, one entry per hole.
HoleList(table) ==
    LET order == SortedSeqOf(DOMAIN table)
    IN  [i \in DOMAIN order |->
            [ hole_number    |-> order[i],
              player_a_score |-> table[order[i]].player_a_score,
              player_b_score |-> table[order[i]].player_b_score,
              player_a_net   |-> table[order[i]].player_a_net,
              player_b_net   |-> table[order[i]].player_b_net ]]

\* The per-player rows when there are any, the legacy hole_scores rows otherwise.
fetch_hole_scores(player_rows, legacy_rows) ==
    IF DOMAIN player_rows # {} THEN HoleList(player_rows) ELSE HoleList(legacy_rows)

\* The columns _fetch_results selects: no handicap, hole_count, start_hole,
\* finalized or snapshot.
_row_to_result(row) ==
    [ player_a_name   |-> row.player_a_name,
      player_b_name   |-> row.player_b_name,
      player_a_points |-> row.player_a_points,
      player_b_points |-> row.player_b_points,
      player_a_bonus  |-> row.player_a_bonus,
      player_b_bonus  |-> row.player_b_bonus,
      player_a_total  |-> row.player_a_total,
      player_b_total  |-> row.player_b_total,
      winner          |-> row.winner ]

\* result.get("player_a_handicap") or _player_handicap_by_name(name)
HandicapOrByName(result, field, name, plyrs) ==
    LET recorded == Get(result, field)
    IN  IF IsSome(recorded) /\ Val(recorded) # 0 THEN Val(recorded) ELSE plyrs[name]

(***************************************************************************)
(* main.py: scorecard of a match                                           *)
(***************************************************************************)
AttributeError == [error |-> "AttributeError"]

\* snapshot_column is the scorecard_snapshot column as fetched: None or Some(str).
_scorecard_data_for_match(snapshot_column, holes, handicap_a, handicap_b, course, match_length, start_hole, use_snapshot) ==
    LET snapshot == IF snapshot_column = None THEN EmptyDict ELSE Val(snapshot_column)
        live == _build_scorecard_rows(holes, handicap_a, handicap_b, course,
                                      PyOr(match_length, 18), PyOr(start_hole, 1))
    IN  IF ~use_snapshot THEN live
        ELSE IF snapshot_column = None THEN live
        ELSE IF IsStr(snapshot) THEN AttributeError
        ELSE IF "rows" \in DOMAIN snapshot /\ snapshot.rows # <<>>
        THEN [rows |-> snapshot.rows, course |-> snapshot.course, meta |-> snapshot.meta]
        ELSE live

RECURSIVE _estimate_points_from_raw_scores(_)
_estimate_points_from_raw_scores(holes) ==
    IF holes = <<>> THEN <<0, 0>>
    ELSE LET a == Head(holes).player_a_score
             b == Head(holes).player_b_score
             rest == _estimate_points_from_raw_scores(Tail(holes))
         IN  IF a < b THEN <<rest[1] + 2, rest[2]>>
             ELSE IF b < a THEN <<rest[1], rest[2] + 2>>
             ELSE <<rest[1] + 1, rest[2] + 1>>

\* The summary of a computed scorecard: the raw-score estimate replaces totals
\* of zero when the estimate has points.
SummaryOfScorecard(scorecard_data, fallback) ==
    IF /\ scorecard_data.meta.total_points_a = 0
       /\ scorecard_data.meta.total_points_b = 0
       /\ (fallback[1] > 0 \/ fallback[2] > 0)
    THEN [ scorecard_data |-> [scorecard_data EXCEPT
                                  !.meta.total_points_a = fallback[1],
                                  !.meta.total_points_b = fallback[2]],
           total_points_a |-> fallback[1],
           total_points_b |-> fallback[2] ]
    ELSE [ scorecard_data |-> scorecard_data,
           total_points_a |-> scorecard_data.meta.total_points_a,
           total_points_b |-> scorecard_data.meta.total_points_b ]

\* player_a_handicap, player_b_handicap: None or Some(handicap).
_match_scorecard_summary(result, holes, plyrs, course, match_length, start_hole, player_a_handicap, player_b_handicap) ==
    IF holes # <<>>
    THEN SummaryOfScorecard(
             _scorecard_data_for_match(result.scorecard_snapshot, holes,
                 IF IsSome(player_a_handicap) THEN Val(player_a_handicap)
                 ELSE HandicapOrByName(result, "player_a_handicap", result.player_a_name, plyrs),
                 IF IsSome(player_b_handicap) THEN Val(player_b_handicap)
                 ELSE HandicapOrByName(result, "player_b_handicap", result.player_b_name, plyrs),
                 course, match_length, start_hole, FALSE),
             _estimate_points_from_raw_scores(holes))
    ELSE [ scorecard_data |-> IF result.scorecard_snapshot = None THEN EmptyDict
                              ELSE Val(result.scorecard_snapshot),
           total_points_a |-> PyOr(result.player_a_total, result.player_a_points),
           total_points_b |-> PyOr(result.player_b_total, result.player_b_points) ]

\* {row["hole_number"]: {"A": strokes_a, "B": strokes_b} for row in rows}
StrokeMapOfRows(rows) ==
    [n \in {rows[i].hole_number : i \in DOMAIN rows} |->
        LET last == CHOOSE i \in DOMAIN rows :
                        /\ rows[i].hole_number = n
                        /\ \A j \in DOMAIN rows : rows[j].hole_number = n => j <= i
        IN  [A |-> rows[last].strokes_a, B |-> rows[last].strokes_b]]

\* Strokes of each side on one hole as _player_scorecard_entries reads them
\* from the stroke map of the match (rows of an empty scorecard).
_stroke_map_for_result(result, plyrs, course) ==
    StrokeMapOfRows(
        _scorecard_data_for_match(result.scorecard_snapshot, <<>>,
            HandicapOrByName(result, "player_a_handicap", result.player_a_name, plyrs),
            HandicapOrByName(result, "player_b_handicap", result.player_b_name, plyrs),
            course, PyOr(result.hole_count, 18), PyOr(result.start_hole, 1), FALSE).rows)

(***************************************************************************)
(* main.py: standings aggregation                                          *)
(***************************************************************************)
_empty_stat ==
    [ matches |-> 0, wins |-> 0, ties |-> 0, losses |-> 0, points_for |-> 0,
      points_against |-> 0, point_diff |-> 0, holes_played |-> 0 ]

_record_player(entry, player_points, opponent_points, winner, role, holes_played) ==
    [ entry EXCEPT !.matches = @ + 1,
                   !.points_for = @ + player_points,
                   !.points_against = @ + opponent_points,
                   !.ties = IF winner = "T" THEN @ + 1 ELSE @,
                   !.wins = IF winner # "T" /\ winner = role THEN @ + 1 ELSE @,
                   !.losses = IF winner # "T" /\ winner # role THEN @ + 1 ELSE @,
                   !.holes_played = @ + holes_played ]

\* The two entries of a match from its scorecard totals and adjusted outcome.
AbStats(result, points_a, points_b, adjusted) ==
    << [name |-> result.player_a_name, role |-> "A", points |-> points_a,
        bonus |-> adjusted.player_a_bonus, total |-> adjusted.player_a_total],
       [name |-> result.player_b_name, role |-> "B", points |-> points_b,
        bonus |-> adjusted.player_b_bonus, total |-> adjusted.player_b_total] >>

AbStatsOfPoints(result, points_a, points_b, recorded_holes, match_length) ==
    AbStats(result, points_a, points_b,
            _apply_bonus_constraints(score_outcome(points_a, points_b),
                points_a, points_b, recorded_holes, match_length, None))

AbStatsOfScorecard(result, scorecard, recorded_holes, match_length) ==
    AbStatsOfPoints(result, scorecard.meta.total_points_a, scorecard.meta.total_points_b,
                    recorded_holes, match_length)

AbStatsOfMatch(result, holes, plyrs, course, match_length, start_hole) ==
    AbStatsOfScorecard(result,
        _scorecard_data_for_match(None, holes,
            HandicapOrByName(result, "player_a_handicap", result.player_a_name, plyrs),
            HandicapOrByName(result, "player_b_handicap", result.player_b_name, plyrs),
            course, match_length, start_hole, FALSE),
        Len(holes), match_length)

\* result is a _row_to_result dict; holes is non-empty.
_match_cleanup_ab_stats(result, holes, plyrs, course) ==
    AbStatsOfMatch(result, holes, plyrs, course,
        IF IsSome(Get(result, "hole_count")) THEN PyOr(Val(Get(result, "hole_count")), 18) ELSE 18,
        IF IsSome(Get(result, "start_hole")) THEN PyOr(Val(Get(result, "start_hole")), 1) ELSE 1)

\* The loop body of _aggregate_standings_entries for a match with hole records.
RecordEntries(stats, first, second, first_total, second_total, hole_count) ==
    LET first_points == PyOr(first.points, first_total)
        second_points == PyOr(second.points, second_total)
        winner == IF first_total > second_total THEN "A"
                  ELSE IF second_total > first_total THEN "B" ELSE "T"
    IN  [stats EXCEPT
           ![first.name] = _record_player(@, PyOr(first_total, first_points),
                               second_points, winner, "A", hole_count),
           ![second.name] = _record_player(@, PyOr(second_total, second_points),
                               first_points, winner, "B", hole_count)]

RecordGroup(stats, group, hole_count) ==
    RecordEntries(stats, group[1], group[2],
                  PyOr(group[1].total, group[1].points),
                  PyOr(group[2].total, group[2].points), hole_count)

\* The loop body for a match without hole records: the stored totals count.
RecordStored(stats, result, hole_count) ==
    [stats EXCEPT
       ![result.player_a_name] = _record_player(@, result.player_a_total,
               result.player_b_total, result.winner, "A", hole_count),
       ![result.player_b_name] = _record_player(@, result.player_b_total,
               result.player_a_total, result.winner, "B", hole_count)]

\* Variant: a match whose row already holds a total is recorded from the row.
RecordResult_stored_first(stats, result, holes, plyrs, course) ==
    IF holes = <<>> /\ result.player_a_total = 0 /\ result.player_b_total = 0
    THEN stats
    ELSE IF holes # <<>> /\ result.player_a_total = 0 /\ result.player_b_total = 0
    THEN RecordGroup(stats, _match_cleanup_ab_stats(result, holes, plyrs, course), Len(holes))
    ELSE RecordStored(stats, result, Len(holes))

RecordResult(stats, result, holes, plyrs, course) ==
    IF holes = <<>> /\ result.player_a_total = 0 /\ result.player_b_total = 0
    THEN stats
    ELSE IF holes # <<>>
    THEN RecordGroup(stats, _match_cleanup_ab_stats(result, holes, plyrs, course), Len(holes))
    ELSE RecordStored(stats, result, Len(holes))

\* entry["point_diff"] = entry["points_for"] - entry["points_against"]
WithPointDiff(recorded) ==
    [p \in DOMAIN recorded |->
        [recorded[p] EXCEPT !.point_diff = recorded[p].points_for - recorded[p].points_against]]

\* results is None (no match result) or Some(match_results row).
_aggregate_standings_entries(results, holes, plyrs, course) ==
    WithPointDiff(IF results = None THEN [p \in PlayerNames |-> _empty_stat]
                  ELSE RecordResult([p \in PlayerNames |-> _empty_stat],
                                    _row_to_result(Val(results)), holes, plyrs, course))

(***************************************************************************)
(* Function-level runs: Init draws the arguments of one call, the action   *)
(* makes the call.                                                         *)
(***************************************************************************)
BonusOverrides ==
    {None} \cup {Some([player_a_bonus |-> x, player_b_bonus |-> y]) : x, y \in {0, 2}}

\* Hole lists of 1..MaxListHoles holes with pairwise different hole numbers.
HoleLists ==
    UNION { { s \in [1..n -> [hole_number : 1..MaxListHoles, par : {4},
                              handicap : 1..MaxListHoles]] :
                \A i, j \in 1..n : i # j => s[i].hole_number # s[j].hole_number }
            : n \in 1..MaxListHoles }

\* Stored nets of a recorded hole: none (a legacy row), or gross minus the
\* strokes one side had when the hole was submitted.
StoredStrokePairs ==
    {<<s, 0>> : s \in 0..MaxStoredStrokes} \cup {<<0, s>> : s \in 0..MaxStoredStrokes}

StoredNets(a, b) ==
    {<<None, None>>}
    \cup {<<Some(2 * a - p[1]), Some(2 * b - p[2])>> : p \in StoredStrokePairs}

HoleEntries(h) ==
    UNION { { [hole_number |-> h, player_a_score |-> g[1], player_b_score |-> g[2],
               player_a_net |-> nets[1], player_b_net |-> nets[2]] :
                 nets \in StoredNets(g[1], g[2]) }
            : g \in (MinGross..MaxGross) \X (MinGross..MaxGross) }

\* Hole-entry lists as fetch_hole_scores returns them: ordered by hole number.
EntryLists ==
    {<<>>}
    \cup {<<e>> : e \in HoleEntries(1) \cup HoleEntries(10)}
    \cup {<<e1, e2>> : e1 \in HoleEntries(1), e2 \in HoleEntries(10)}

ScoreArgs ==
    [fn : {"score_outcome"}, player_a_points : 0..MaxPoints, player_b_points : 0..MaxPoints]

BonusArgs ==
    [fn : {"_apply_bonus_constraints"}, total_a : 0..MaxPoints, total_b : 0..MaxPoints,
     recorded_holes : 0..MaxRecorded, match_length : MatchLengths,
     bonus_override : BonusOverrides]

\* An 18-hole course whose two nines each carry the stroke indices 1..9.
TwoNinesCourse ==
    [n \in 1..CourseSize |-> [hole_number |-> n, par |-> 4, handicap |-> ((n - 1) % 9) + 1]]

\* The active holes of an 18-hole match on it that starts at hole 10.
WrappedCourses == {ActiveCourse(TwoNinesCourse, 18, 10)}

AllocArgs ==
    [fn : {"_stroke_allocation"}, total_strokes : 0..MaxStrokes,
     course_holes : HoleLists \cup WrappedCourses]

ScorecardArgs ==
    [fn : {"_build_scorecard_rows"}, holes : EntryLists, handicap_a : Handicaps,
     handicap_b : Handicaps, course_holes : Courses, match_length : MatchLengths,
     start_hole : StartHoles]

\* Hole records of a match played level: the first wins_a holes go to A
\* (MinGross v MaxGross), the next wins_b to B, the rest are halved.
PlayedHole(h, wins_a, wins_b) ==
    [ hole_number |-> h,
      player_a_score |-> IF h <= wins_a THEN MinGross ELSE MaxGross,
      player_b_score |-> IF h > wins_a /\ h <= wins_a + wins_b THEN MinGross ELSE MaxGross,
      player_a_net |-> None, player_b_net |-> None ]

PlayedHoles(n, wins_a, wins_b) == [h \in 1..n |-> PlayedHole(h, wins_a, wins_b)]

\* Recorded hole counts of the aggregated match: none, below the nine-hole
\* milestone, and at it.
RecordedCounts == {0, 1, 2, 9}

PlayedHoleLists ==
    UNION { { PlayedHoles(n, w[1], w[2]) : w \in {v \in (0..n) \X (0..n) : v[1] + v[2] <= n} }
            : n \in RecordedCounts }

\* What a match_results row may hold before the aggregation: the empty
\* outcome of a new row, or points, bonus, total and winner of an earlier
\* recomputation.
StoredOutcomes ==
    { [player_a_points |-> 0, player_b_points |-> 0, player_a_bonus |-> 0,
       player_b_bonus |-> 0, player_a_total |-> 0, player_b_total |-> 0, winner |-> "T"],
      [player_a_points |-> 4, player_b_points |-> 0, player_a_bonus |-> 0,
       player_b_bonus |-> 0, player_a_total |-> 4, player_b_total |-> 0, winner |-> "A"],
      [player_a_points |-> 6, player_b_points |-> 12, player_a_bonus |-> 0,
       player_b_bonus |-> 2, player_a_total |-> 6, player_b_total |-> 14, winner |-> "B"] }

StoredResult(outcome) ==
    [ player_a_name |-> "P1", player_b_name |-> "P2",
      player_a_points |-> outcome.player_a_points,
      player_b_points |-> outcome.player_b_points,
      player_a_bonus |-> outcome.player_a_bonus,
      player_b_bonus |-> outcome.player_b_bonus,
      player_a_total |-> outcome.player_a_total,
      player_b_total |-> outcome.player_b_total,
      winner |-> outcome.winner ]

StandingsArgs ==
    [fn : {"_aggregate_standings_entries"}, result : {StoredResult(o) : o \in StoredOutcomes},
     holes : PlayedHoleLists]

\* The hole records of the worked example (handicaps A 12, B 6): equal gross scores except that A is one better on the
\* holes of `better` and one worse on the holes of `worse`.
ScenarioHoles(better, worse) ==
    [h \in 1..CourseSize |->
        [ hole_number |-> h,
          player_a_score |-> IF h \in better THEN MinGross ELSE MaxGross,
          player_b_score |-> IF h \in worse THEN MinGross ELSE MaxGross,
          player_a_net |-> None, player_b_net |-> None ]]

\* A is better on 3 of the stroke holes 1..6, worse on 3 of the holes 7..18.
ScenarioArgs ==
    [fn : {"_build_scorecard_rows"},
     holes : {ScenarioHoles(better, worse) :
                 better \in {s \in SUBSET (1..6) : Cardinality(s) = 3},
                 worse \in {s \in SUBSET (7..CourseSize) : Cardinality(s) = 3}},
     handicap_a : {12}, handicap_b : {6},
     course_holes : {CourseHoles(CourseSize, 0)}, match_length : {18}, start_hole : {1}]

(***************************************************************************)
(* db.py: the hole_scores table of one match result as the sequence of its *)
(* rows in insertion order.  The table has no UNIQUE constraint.           *)
(***************************************************************************)
HoleScoreRow == [hole_number : {1, 2}, player_a_score : MinGross..MaxGross,
                 player_b_score : MinGross..MaxGross]

\* The numbers named by a list of rows or entries.
NumbersOf(entries) == {entries[i].hole_number : i \in DOMAIN entries}

NamedIn(numbers, row) == row.hole_number \in numbers

\* DELETE FROM hole_scores WHERE ... hole_number IN (...)
DeleteHoles(stored, numbers) == SelectSeq(stored, LAMBDA row : ~NamedIn(numbers, row))

\* insert_hole_scores: the rows of the named holes are deleted, then every
\* entry of the batch is inserted.
insert_hole_scores(stored, hole_entries) ==
    IF hole_entries = <<>> THEN stored
    ELSE DeleteHoles(stored, NumbersOf(hole_entries)) \o hole_entries

\* Tables with one row per hole number, and batches of one or two entries.
StoredHoleTables ==
    {<<>>} \cup {<<row>> : row \in HoleScoreRow}
           \cup {<<r1, r2>> : r1 \in {row \in HoleScoreRow : row.hole_number = 1},
                              r2 \in {row \in HoleScoreRow : row.hole_number = 2}}

HoleBatches ==
    {<<entry>> : entry \in HoleScoreRow}
        \cup {<<e1, e2>> : e1 \in HoleScoreRow,
                           e2 \in {row \in HoleScoreRow : row.player_b_score = MaxGross}}

InsertArgs == [fn : {"insert_hole_scores"}, stored : StoredHoleTables,
               hole_entries : HoleBatches]

InitFn ==
    /\ arg \in ScoreArgs \cup BonusArgs \cup AllocArgs \cup ScorecardArgs \cup StandingsArgs
                \cup ScenarioArgs \cup InsertArgs
    /\ ret = None
    /\ players = [p \in PlayerNames |-> 0]
    /\ course_holes = CourseHoles(CourseSize, 0)
    /\ match = [hole_count |-> 18, start_hole |-> 1, finalized |-> FALSE]
    /\ match_result = None
    /\ hole_scores = EmptyDict
    /\ player_hole_scores = EmptyDict
    /\ match_bonus = None
    /\ standings_cache = EmptyDict
    /\ response = NoResponse
    /\ requests = 0
    /\ cd_match_result = None
    /\ cd_player_hole_scores = EmptyDict
    /\ cd_match_bonus = None
    /\ cd_finalized_results = << >>
    /\ divisions = [p \in DOMAIN players |-> "OPEN"]
    /\ match_results = << >>
    /\ scoring_pin = DefaultPin
    /\ in_flight = << >>

CallScoreOutcome ==
    /\ arg.fn = "score_outcome"
    /\ ret = None
    /\ \E outcome \in {score_outcome(arg.player_a_points, arg.player_b_points)} :
           ret' = Some(outcome)
    /\ UNCHANGED << sysvars, arg >>

CallApplyBonusConstraints ==
    /\ arg.fn = "_apply_bonus_constraints"
    /\ ret = None
    /\ \E adjusted \in {_apply_bonus_constraints(score_outcome(arg.total_a, arg.total_b),
                               arg.total_a, arg.total_b, arg.recorded_holes,
                               arg.match_length, arg.bonus_override)} :
           ret' = Some(adjusted)
    /\ UNCHANGED << sysvars, arg >>

CallStrokeAllocation ==
    /\ arg.fn = "_stroke_allocation"
    /\ ret = None
    /\ \E allocation \in {_stroke_allocation(arg.total_strokes, arg.course_holes)} :
           ret' = Some(allocation)
    /\ UNCHANGED << sysvars, arg >>

CallBuildScorecardRows ==
    /\ arg.fn = "_build_scorecard_rows"
    /\ ret = None
    /\ \E computed \in {_build_scorecard_rows(arg.holes, arg.handicap_a, arg.handicap_b,
                               arg.course_holes, arg.match_length, arg.start_hole)} :
           ret' = Some(computed)
    /\ UNCHANGED << sysvars, arg >>

CallAggregateStandings ==
    /\ arg.fn = "_aggregate_standings_entries"
    /\ ret = None
    /\ \E entries \in {_aggregate_standings_entries(Some(arg.result), arg.holes,
                                                    players, course_holes)} :
           ret' = Some(entries)
    /\ UNCHANGED << sysvars, arg >>

CallInsertHoleScores ==
    /\ arg.fn = "insert_hole_scores"
    /\ ret = None
    /\ ret' = Some(insert_hole_scores(arg.stored, arg.hole_entries))
    /\ UNCHANGED << sysvars, arg >>

NextFn ==
    \/ CallInsertHoleScores
    \/ CallScoreOutcome
    \/ CallApplyBonusConstraints
    \/ CallStrokeAllocation
    \/ CallBuildScorecardRows
    \/ CallAggregateStandings

SpecFn == InitFn /\ [][NextFn]_vars

(***************************************************************************)
(* The running system: one scheduled pairing P1 v P2 of the active         *)
(* tournament, its match result, hole records, bonus row and the standings *)
(* cache, driven by the HTTP handlers of main.py.                          *)
(***************************************************************************)
\* Hole numbers that submissions record.
SubmitHoles == {1, 2}

BonusInputs == {0, 2}

Idle == [fn |-> "idle"]

\* The row _ensure_match_result_for_pairing inserts for a pairing without one.
NewMatchResult(plyrs, pairing) ==
    LET match_length == PyOr(pairing.hole_count, 18)
        adjusted == _apply_bonus_constraints(score_outcome(0, 0), 0, 0, 0, match_length, None)
    IN  [ player_a_name      |-> "P1",
          player_b_name      |-> "P2",
          player_a_points    |-> adjusted.player_a_points,
          player_b_points    |-> adjusted.player_b_points,
          player_a_bonus     |-> adjusted.player_a_bonus,
          player_b_bonus     |-> adjusted.player_b_bonus,
          player_a_total     |-> adjusted.player_a_total,
          player_b_total     |-> adjusted.player_b_total,
          winner             |-> adjusted.winner,
          player_a_handicap  |-> plyrs["P1"],
          player_b_handicap  |-> plyrs["P2"],
          hole_count         |-> match_length,
          start_hole         |-> PyOr(pairing.start_hole, 1),
          finalized          |-> FALSE,
          course_snapshot    |-> None,
          scorecard_snapshot |-> None ]

\* The existing row of the pairing, or the freshly inserted one.
_ensure_match_result_for_pairing(existing, plyrs, pairing) ==
    IF IsSome(existing) THEN Val(existing) ELSE NewMatchResult(plyrs, pairing)

\* "not_started", "in_progress" or "completed" as the match list shows it.
_match_status_info(result, holes) ==
    IF result = None THEN "not_started"
    ELSE IF Val(result).finalized THEN "completed"
    ELSE IF Len(holes) >= 18 THEN "completed"
    ELSE "in_progress"

\* The standings cache rebuilt from the tables.
_refresh_standings_cache(result, player_rows, legacy_rows, plyrs, course) ==
    _aggregate_standings_entries(result, fetch_hole_scores(player_rows, legacy_rows),
                                 plyrs, course)

\* The match_results row and match_bonus row written for an adjusted outcome.
StoredOutcome(result, points_a, points_b, adjusted, winner) ==
    [ result |-> [result EXCEPT !.player_a_points = points_a,
                                !.player_b_points = points_b,
                                !.player_a_bonus = adjusted.player_a_bonus,
                                !.player_b_bonus = adjusted.player_b_bonus,
                                !.player_a_total = adjusted.player_a_total,
                                !.player_b_total = adjusted.player_b_total,
                                !.winner = winner],
      bonus  |-> Some([player_a_bonus |-> adjusted.player_a_bonus,
                       player_b_bonus |-> adjusted.player_b_bonus]) ]

RecomputedOutcome(result, adjusted) ==
    StoredOutcome(result, adjusted.player_a_points, adjusted.player_b_points, adjusted,
                  adjusted.winner)

RecomputedFromSummary(result, summary, recorded_holes, match_length, bonus_override) ==
    RecomputedOutcome(result,
        _apply_bonus_constraints(score_outcome(summary.total_points_a, summary.total_points_b),
            summary.total_points_a, summary.total_points_b, recorded_holes, match_length,
            bonus_override))

\* The match_results row and match_bonus row after recomputing from the hole records.
_recompute_match_result_from_holes(result, holes, bonus_override, plyrs, course) ==
    IF holes = <<>> THEN [result |-> result, bonus |-> bonus_override]
    ELSE RecomputedFromSummary(result,
             _match_scorecard_summary(result, holes, plyrs, course,
                 PyOr(result.hole_count, 18), PyOr(result.start_hole, 1), None, None),
             Len(holes), PyOr(result.hole_count, 18), bonus_override)

Init ==
    /\ players = [p \in PlayerNames |-> 0]
    /\ course_holes = CourseHoles(CourseSize, 0)
    /\ match \in [hole_count : MatchLengths, start_hole : {1}, finalized : {FALSE}]
    /\ match_result = None
    /\ hole_scores = EmptyDict
    /\ player_hole_scores = EmptyDict
    /\ match_bonus = None
    /\ standings_cache = [p \in PlayerNames |-> _empty_stat]
    /\ response = NoResponse
    /\ requests = 0
    /\ cd_match_result = None
    /\ cd_player_hole_scores = EmptyDict
    /\ cd_match_bonus = None
    /\ cd_finalized_results = << >>
    /\ divisions = [p \in DOMAIN players |-> "OPEN"]
    /\ match_results = << >>
    /\ scoring_pin = DefaultPin
    /\ in_flight = << >>
    /\ arg = Idle
    /\ ret = None

\* The answer of _scorecard_context for the scorecard data it computed.
ResponseOf(computed, existing, result, hole_records) ==
    IF "error" \in DOMAIN computed
    THEN [op |-> "scorecard", status |-> 500]
    ELSE [ op |-> "scorecard", status |-> 200,
           status_info |-> _match_status_info(existing, hole_records),
           scorecard |-> IF result.finalized
                         THEN [computed EXCEPT
                                 !.meta.total_points_a = result.player_a_total,
                                 !.meta.total_points_b = result.player_b_total]
                         ELSE computed ]

\* What _scorecard_context answers for a match result and its hole records.
ScorecardResponse(existing, result, hole_records, pairing, course) ==
    ResponseOf(_scorecard_data_for_match(result.scorecard_snapshot, hole_records,
                   result.player_a_handicap, result.player_b_handicap, course,
                   PyOr(pairing.hole_count, 18), PyOr(pairing.start_hole, 1), TRUE),
               existing, result, hole_records)

\* GET of the scorecard of the pairing.
_scorecard_context ==
    /\ arg = Idle
    /\ requests < MaxRequests
    /\ requests' = requests + 1
    /\ UNCHANGED << cdvars, tvars >>
    /\ \E result \in {_ensure_match_result_for_pairing(match_result, players, match)} :
         /\ match_result' = Some(result)
         /\ \E answer \in {ScorecardResponse(match_result, result,
                               fetch_hole_scores(player_hole_scores, hole_scores),
                               match, course_holes)} :
              response' = answer
    /\ UNCHANGED << players, course_holes, match, hole_scores, player_hole_scores,
                    match_bonus, standings_cache, arg, ret >>

\* A hole row with its nets: gross minus the strokes of the side on the hole.
RowWithStrokes(player_a_score, player_b_score, strokes) ==
    [ player_a_score |-> player_a_score,
      player_b_score |-> player_b_score,
      player_a_net   |-> Some(2 * player_a_score - strokes.A),
      player_b_net   |-> Some(2 * player_b_score - strokes.B) ]

\* stroke_map.get(hole_number, {})
StrokesOnHole(stroke_map, hole_number) ==
    IF hole_number \in DOMAIN stroke_map THEN stroke_map[hole_number]
    ELSE [A |-> 0, B |-> 0]

\* The rows insert_hole_scores and insert_player_hole_scores write for one hole.
SubmittedRow(result, hole_number, player_a_score, player_b_score, plyrs, course) ==
    RowWithStrokes(player_a_score, player_b_score,
                   StrokesOnHole(_stroke_map_for_result(result, plyrs, course), hole_number))

\* A table with the row of one hole replaced.
ReplaceRow(table, hole_number, row) ==
    [n \in DOMAIN table \cup {hole_number} |-> IF n = hole_number THEN row ELSE table[n]]

\* The writes and the answer of POST /matches/{id}/holes with one hole entry.
MatchDetailSubmit(hole_number, player_a_score, player_b_score) ==
    /\ UNCHANGED << cdvars, tvars >>
    /\ IF match_result = None
       THEN \* no match_results row: the insert into hole_scores breaks the foreign key
            /\ response' = [op |-> "submit", status |-> 500]
            /\ UNCHANGED << match_result, hole_scores, player_hole_scores, match_bonus,
                            standings_cache >>
       ELSE \E row \in {SubmittedRow(Val(match_result), hole_number, player_a_score,
                                     player_b_score, players, course_holes)} :
            \E player_rows \in {ReplaceRow(player_hole_scores, hole_number, row)} :
            \E legacy_rows \in {ReplaceRow(hole_scores, hole_number, row)} :
            \E recomputed \in {_recompute_match_result_from_holes(Val(match_result),
                                   fetch_hole_scores(player_rows, legacy_rows), match_bonus,
                                   players, course_holes)} :
            \E cache \in {_refresh_standings_cache(Some(recomputed.result), player_rows,
                              legacy_rows, players, course_holes)} :
                /\ player_hole_scores' = player_rows
                /\ hole_scores' = legacy_rows
                /\ match_result' = Some(recomputed.result)
                /\ match_bonus' = recomputed.bonus
                /\ standings_cache' = cache
                /\ response' = [op |-> "submit", status |-> 200, added |-> 1]
    /\ UNCHANGED << players, course_holes, match, arg, ret >>

\* POST /matches/{id}/holes with one hole entry.
match_detail_submit(hole_number, player_a_score, player_b_score) ==
    /\ arg = Idle
    /\ requests < MaxRequests
    /\ requests' = requests + 1
    /\ MatchDetailSubmit(hole_number, player_a_score, player_b_score)

\* The finalized row: the outcome stored with the snapshots of the match.
FinalizedOutcome(stored, scorecard_data) ==
    [stored EXCEPT !.result.finalized = TRUE,
                   !.result.course_snapshot = _json_value(Some(EmptyDict)),
                   !.result.scorecard_snapshot = _json_value(Some(scorecard_data))]

FinalizedWithOutcome(target, summary, outcome, adjusted) ==
    FinalizedOutcome(StoredOutcome(target, summary.total_points_a, summary.total_points_b,
                                   adjusted, outcome.winner),
                     summary.scorecard_data)

FinalizedWithScore(target, summary, outcome, match_length, bonus_override) ==
    FinalizedWithOutcome(target, summary, outcome,
        _apply_bonus_constraints(outcome, summary.total_points_a, summary.total_points_b,
                                 match_length, match_length, bonus_override))

FinalizedFromSummary(target, summary, match_length, bonus_override) ==
    FinalizedWithScore(target, summary,
        score_outcome(summary.total_points_a, summary.total_points_b),
        match_length, bonus_override)

\* Variant: a target that is already finalized is finalized again.
FinalizeTarget_again(target, holes, bonus_override, plyrs, course) ==
    FinalizedFromSummary(target,
        _match_scorecard_summary(target, holes, plyrs, course,
            PyOr(target.hole_count, 18), PyOr(target.start_hole, 1),
            Some(PyOr(target.player_a_handicap, 0)),
            Some(PyOr(target.player_b_handicap, 0))),
        PyOr(target.hole_count, 18), bonus_override)

\* The match_results row and match_bonus row finalize_match leaves for a target.
FinalizeTarget(target, holes, bonus_override, plyrs, course) ==
    IF target.finalized THEN [result |-> target, bonus |-> bonus_override]
    ELSE FinalizedFromSummary(target,
             _match_scorecard_summary(target, holes, plyrs, course,
                 PyOr(target.hole_count, 18), PyOr(target.start_hole, 1),
                 Some(PyOr(target.player_a_handicap, 0)),
                 Some(PyOr(target.player_b_handicap, 0))),
             PyOr(target.hole_count, 18), bonus_override)

\* POST /matches/{id}/finalize without a redirect target.
finalize_match ==
    /\ arg = Idle
    /\ requests < MaxRequests
    /\ requests' = requests + 1
    /\ UNCHANGED << cdvars, tvars >>
    /\ \E after \in {FinalizeTarget(
                         _ensure_match_result_for_pairing(match_result, players, match),
                         fetch_hole_scores(player_hole_scores, hole_scores), match_bonus,
                         players, course_holes)} :
       \E cache \in {_refresh_standings_cache(Some(after.result), player_hole_scores,
                         hole_scores, players, course_holes)} :
         /\ match_result' = Some(after.result)
         /\ match_bonus' = after.bonus
         /\ standings_cache' = cache
    /\ match' = [match EXCEPT !.finalized = TRUE]
    /\ response' = [op |-> "finalize", status |-> 200, finalized |-> TRUE]
    /\ UNCHANGED << players, course_holes, hole_scores, player_hole_scores, arg, ret >>

\* UPDATE match_results ... of reset_match_results.
reset_match_results(result, outcome) ==
    [result EXCEPT !.player_a_points = outcome.player_a_points,
                   !.player_b_points = outcome.player_b_points,
                   !.player_a_bonus = outcome.player_a_bonus,
                   !.player_b_bonus = outcome.player_b_bonus,
                   !.player_a_total = outcome.player_a_total,
                   !.player_b_total = outcome.player_b_total,
                   !.winner = outcome.winner,
                   !.finalized = FALSE,
                   !.course_snapshot = None,
                   !.scorecard_snapshot = None]

\* POST /matches/{id}/reset; reset_match_results also deletes the hole_scores rows.
reset_match_scores ==
    /\ arg = Idle
    /\ requests < MaxRequests
    /\ requests' = requests + 1
    /\ UNCHANGED << cdvars, tvars >>
    /\ \E result_after \in {reset_match_results(
                                _ensure_match_result_for_pairing(match_result, players, match),
                                score_outcome(0, 0))} :
       \E cache \in {_refresh_standings_cache(Some(result_after), player_hole_scores,
                         EmptyDict, players, course_holes)} :
         /\ match_result' = Some(result_after)
         /\ standings_cache' = cache
    /\ hole_scores' = EmptyDict
    /\ match' = [match EXCEPT !.finalized = FALSE]
    /\ response' = [op |-> "reset", status |-> 303]
    /\ UNCHANGED << players, course_holes, player_hole_scores, match_bonus, arg, ret >>

\* POST /matches/{id}/bonus.
set_match_bonus(player_a_bonus, player_b_bonus) ==
    /\ arg = Idle
    /\ requests < MaxRequests
    /\ requests' = requests + 1
    /\ UNCHANGED << cdvars, tvars >>
    /\ IF match_result = None
       THEN /\ response' = [op |-> "bonus", status |-> 404]
            /\ UNCHANGED << match_bonus, standings_cache >>
       ELSE \E cache \in {_refresh_standings_cache(match_result, player_hole_scores,
                              hole_scores, players, course_holes)} :
            /\ match_bonus' = Some([player_a_bonus |-> player_a_bonus,
                                    player_b_bonus |-> player_b_bonus])
            /\ standings_cache' = cache
            /\ response' = [op |-> "bonus", status |-> 200]
    /\ UNCHANGED << players, course_holes, match, match_result, hole_scores,
                    player_hole_scores, arg, ret >>

\* POST /admin/tournament_setup/player/edit: a player's handicap is changed.
edit_tournament_player(name, handicap) ==
    /\ arg = Idle
    /\ requests < MaxRequests
    /\ requests' = requests + 1
    /\ UNCHANGED << cdvars, tvars >>
    /\ players[name] # handicap
    /\ players' = [players EXCEPT ![name] = handicap]
    /\ response' = [op |-> "edit_player", status |-> 303]
    /\ UNCHANGED << course_holes, match, match_result, hole_scores, player_hole_scores,
                    match_bonus, standings_cache, arg, ret >>

\* POST /admin/courses/new: the holes of the tournament's tee are replaced.
manual_course_submit(holes) ==
    /\ arg = Idle
    /\ requests < MaxRequests
    /\ requests' = requests + 1
    /\ UNCHANGED << cdvars, tvars >>
    /\ course_holes # holes
    /\ course_holes' = holes
    /\ response' = [op |-> "course", status |-> 303]
    /\ UNCHANGED << players, match, match_result, hole_scores, player_hole_scores,
                    match_bonus, standings_cache, arg, ret >>

Next ==
    \/ _scorecard_context
    \/ \E h \in SubmitHoles, a, b \in MinGross..MaxGross : match_detail_submit(h, a, b)
    \/ finalize_match
    \/ reset_match_scores
    \/ \E a, b \in BonusInputs : set_match_bonus(a, b)
    \/ \E p \in PlayerNames, h \in Handicaps : edit_tournament_player(p, h)
    \/ \E c \in Courses : manual_course_submit(c)

Spec == Init /\ [][Next]_vars

(***************************************************************************)
(* Foursome pairing: P1 (A) and P3 (C) play P2 (B) and P4 (D); the A-vs-B  *)
(* result has match key k and the C-vs-D result match key k-cd.            *)
(*                                                                         *)
(* Rows of hole_scores and player_hole_scores of the A-vs-B result are     *)
(* kept per hole number as [player_a_score, .., player_d_score,            *)
(* player_a_net, .., player_d_net].  A score that the request leaves out   *)
(* is stored as 0.                                                         *)
(***************************************************************************)
(***************************************************************************)
(* Administration: the handlers that delete match results.  Deleting a     *)
(* match_results row deletes its match_bonus, hole_scores and              *)
(* player_hole_scores rows with it (ON DELETE CASCADE).                    *)
(***************************************************************************)
\* POST /admin/match_results/delete
delete_match_result_row ==
    /\ arg = Idle
    /\ requests < MaxRequests
    /\ requests' = requests + 1
    /\ UNCHANGED << cdvars, tvars >>
    /\ IF match_result = None
       THEN /\ response' = [op |-> "delete", status |-> 404]
            /\ UNCHANGED << match_result, hole_scores, player_hole_scores, match_bonus,
                            standings_cache >>
       ELSE /\ match_result' = None
            /\ hole_scores' = EmptyDict
            /\ player_hole_scores' = EmptyDict
            /\ match_bonus' = None
            /\ standings_cache' = _refresh_standings_cache(None, EmptyDict, EmptyDict,
                                                           players, course_holes)
            /\ response' = [op |-> "delete", status |-> 303]
    /\ UNCHANGED << players, course_holes, match, arg, ret >>

\* POST /admin/tournaments/{id}/cleanup: delete_match_results_by_tournament,
\* then the setup page; the standings cache is not written.
cleanup_tournament_data ==
    /\ arg = Idle
    /\ requests < MaxRequests
    /\ requests' = requests + 1
    /\ UNCHANGED << cdvars, tvars >>
    /\ match_result' = None
    /\ hole_scores' = EmptyDict
    /\ player_hole_scores' = EmptyDict
    /\ match_bonus' = None
    /\ response' = [op |-> "cleanup", status |-> 200]
    /\ UNCHANGED << players, course_holes, match, standings_cache, arg, ret >>

NextAdmin ==
    \/ _scorecard_context
    \/ \E h \in SubmitHoles, a, b \in MinGross..MaxGross : match_detail_submit(h, a, b)
    \/ finalize_match
    \/ reset_match_scores
    \/ \E a, b \in BonusInputs : set_match_bonus(a, b)
    \/ \E p \in PlayerNames, h \in Handicaps : edit_tournament_player(p, h)
    \/ \E c \in Courses : manual_course_submit(c)
    \/ delete_match_result_row
    \/ cleanup_tournament_data

SpecAdmin == Init /\ [][NextAdmin]_vars

(***************************************************************************)
(* Two hole submissions for the same match served at once.  A submission   *)
(* goes through the three writes of match_detail_submit in order: the hole *)
(* insert, _recompute_match_result_from_holes and _refresh_standings_cache;*)
(* no lock is taken, so the steps of two submissions interleave freely.    *)
(* server.py starts one uvicorn process and the handler has no await after *)
(* reading its payload, so every schedule the server produces is among     *)
(* these.                                                                  *)
(***************************************************************************)
\* A submission whose payload has been read and whose writes are still to come.
Arrived(hole_number, player_a_score, player_b_score) ==
    [ hole_number    |-> hole_number,
      player_a_score |-> player_a_score,
      player_b_score |-> player_b_score,
      pc             |-> "insert" ]

\* Variant: the recompute reads only the hole the submission named.
RecomputeHoles_own(holes, hole_number) ==
    SelectSeq(holes, LAMBDA hole : hole.hole_number = hole_number)

\* holes = fetch_hole_scores(database_url, match_result_id): every hole stored for
\* the match at the time of the recompute, whichever submission wrote it.
RecomputeHoles(holes, hole_number) ==
    holes

\* payload = await request.json(): a submission for the match is accepted.
race_arrive(hole_number, player_a_score, player_b_score) ==
    /\ IsSome(match_result)
    /\ Len(in_flight) < 2    \* the two submissions of the race
    /\ in_flight' = Append(in_flight, Arrived(hole_number, player_a_score, player_b_score))
    /\ UNCHANGED << players, course_holes, match, match_result, hole_scores,
                    player_hole_scores, match_bonus, standings_cache, response, requests,
                    cdvars, divisions, match_results, scoring_pin, arg, ret >>

\* insert_hole_scores and insert_player_hole_scores of submission r.
race_insert(r) ==
    /\ in_flight[r].pc = "insert"
    /\ in_flight' = [in_flight EXCEPT ![r].pc = "recompute"]
    /\ \E row \in {SubmittedRow(Val(match_result), in_flight[r].hole_number,
                                in_flight[r].player_a_score, in_flight[r].player_b_score,
                                players, course_holes)} :
         /\ player_hole_scores' = ReplaceRow(player_hole_scores, in_flight[r].hole_number, row)
         /\ hole_scores' = ReplaceRow(hole_scores, in_flight[r].hole_number, row)
    /\ UNCHANGED << players, course_holes, match, match_result, match_bonus,
                    standings_cache, response, requests, cdvars, divisions, match_results,
                    scoring_pin, arg, ret >>

\* _recompute_match_result_from_holes(match_id) of submission r, with the cache
\* refresh it ends with.
race_recompute(r) ==
    /\ in_flight[r].pc = "recompute"
    /\ in_flight' = [in_flight EXCEPT ![r].pc = "refresh"]
    /\ \E recomputed \in {_recompute_match_result_from_holes(Val(match_result),
                              RecomputeHoles(fetch_hole_scores(player_hole_scores, hole_scores),
                                             in_flight[r].hole_number),
                              match_bonus, players, course_holes)} :
         /\ match_result' = Some(recomputed.result)
         /\ match_bonus' = recomputed.bonus
         /\ standings_cache' = _refresh_standings_cache(Some(recomputed.result),
                                   player_hole_scores, hole_scores, players, course_holes)
    /\ UNCHANGED << players, course_holes, match, hole_scores, player_hole_scores,
                    response, requests, cdvars, divisions, match_results, scoring_pin,
                    arg, ret >>

\* _refresh_standings_cache(tournament_id) of submission r and its answer.
race_refresh(r) ==
    /\ in_flight[r].pc = "refresh"
    /\ in_flight' = [in_flight EXCEPT ![r].pc = "done"]
    /\ standings_cache' = _refresh_standings_cache(match_result, player_hole_scores,
                                                   hole_scores, players, course_holes)
    /\ response' = [op |-> "submit", status |-> 200, added |-> 1]
    /\ UNCHANGED << players, course_holes, match, match_result, hole_scores,
                    player_hole_scores, match_bonus, requests, cdvars, divisions,
                    match_results, scoring_pin, arg, ret >>

NextRace ==
    \/ _scorecard_context
    \/ \E h \in SubmitHoles, a, b \in MinGross..MaxGross : race_arrive(h, a, b)
    \/ \E r \in DOMAIN in_flight : race_insert(r)
    \/ \E r \in DOMAIN in_flight : race_recompute(r)
    \/ \E r \in DOMAIN in_flight : race_refresh(r)

SpecRace == Init /\ [][NextRace]_vars

(***************************************************************************)
(* A nine-hole match played through: the scorecard is opened and the holes *)
(* are submitted one at a time, in order, until the card is full.  No      *)
(* bonus is ever set by hand.                                              *)
(***************************************************************************)
\* The gross scores of the two sides on a hole of the round.
RoundScores == { <<3, 4>>, <<4, 3>>, <<4, 4>> }

InitRound ==
    /\ Init
    /\ match.hole_count = 9

\* The number of holes recorded for the match.
RecordedCount ==
    Len(fetch_hole_scores(player_hole_scores, hole_scores))

\* POST /matches/{id}/holes with the next hole of the round.
round_submit(player_a_score, player_b_score) ==
    /\ IsSome(match_result)
    /\ RecordedCount < PyOr(Val(match_result).hole_count, 18)
    /\ UNCHANGED requests
    /\ MatchDetailSubmit(RecordedCount + 1, player_a_score, player_b_score)

\* GET of the scorecard before the first hole.
round_open ==
    /\ match_result = None
    /\ _scorecard_context

NextRound ==
    \/ round_open
    \/ \E scores \in RoundScores : round_submit(scores[1], scores[2])

SpecRound == InitRound /\ [][NextRound]_vars

FoursomeNames == {"P1", "P2", "P3", "P4"}

\* int(entry.get("player_c_score", 0)) for a request without the key.
LeftOut == 0

\* The C and D scores of a hole submission: both left out, or both given.
CdScores == {<<LeftOut, LeftOut>>} \cup ((MinGross..MaxGross) \X (MinGross..MaxGross))

NoStrokes == [A |-> 0, B |-> 0]

\* The row _ensure_cd_match_result_for_pairing inserts.
NewCdMatchResult(plyrs, pairing) ==
    [NewMatchResult(plyrs, pairing) EXCEPT !.player_a_name = "P3",
                                           !.player_b_name = "P4",
                                           !.player_a_handicap = plyrs["P3"],
                                           !.player_b_handicap = plyrs["P4"]]

_ensure_cd_match_result_for_pairing(existing, plyrs, pairing) ==
    IF IsSome(existing) THEN Val(existing) ELSE NewCdMatchResult(plyrs, pairing)

\* The four player rows of one hole: sides A and B net of the strokes of the
\* first stroke map, sides C and D net of the strokes of the second.
FourSideRow(scores, strokes, cd_strokes) ==
    [ player_a_score |-> scores[1],
      player_b_score |-> scores[2],
      player_c_score |-> scores[3],
      player_d_score |-> scores[4],
      player_a_net   |-> Some(2 * scores[1] - strokes.A),
      player_b_net   |-> Some(2 * scores[2] - strokes.B),
      player_c_net   |-> Some(2 * scores[3] - cd_strokes.A),
      player_d_net   |-> Some(2 * scores[4] - cd_strokes.B) ]

\* _player_scorecard_entries(match_result, cleaned) for one hole; cd_result
\* is the row fetched by the key with "-cd" appended, None when there is none.
FoursomeEntries(result, cd_result, hole_number, scores, plyrs, course) ==
    FourSideRow(scores,
        StrokesOnHole(_stroke_map_for_result(result, plyrs, course), hole_number),
        IF cd_result = None THEN NoStrokes
        ELSE StrokesOnHole(_stroke_map_for_result(Val(cd_result), plyrs, course),
                           hole_number))

FourSideEntriesInOrder(table, order) ==
    [i \in DOMAIN order |->
        [ hole_number    |-> order[i],
          player_a_score |-> table[order[i]].player_a_score,
          player_b_score |-> table[order[i]].player_b_score,
          player_c_score |-> table[order[i]].player_c_score,
          player_d_score |-> table[order[i]].player_d_score,
          player_a_net   |-> table[order[i]].player_a_net,
          player_b_net   |-> table[order[i]].player_b_net,
          player_c_net   |-> table[order[i]].player_c_net,
          player_d_net   |-> table[order[i]].player_d_net ]]

\* fetch_hole_scores of the A-vs-B result of a foursome.
FoursomeHoleList(table) == FourSideEntriesInOrder(table, SortedSeqOf(DOMAIN table))

\* holes_for_cd of _recompute_cd_match_result: the C and D scores in the
\* place of the A and B scores, without nets.
RecomputeHolesForCd(holes) ==
    [i \in DOMAIN holes |->
        [ hole_number    |-> holes[i].hole_number,
          player_a_score |-> holes[i].player_c_score,
          player_b_score |-> holes[i].player_d_score,
          player_a_net   |-> None,
          player_b_net   |-> None ]]

\* holes_for_cd of _match_cleanup_cd_stats: "score or 0" and the stored nets.
CleanupHolesForCd(holes) ==
    [i \in DOMAIN holes |->
        [ hole_number    |-> holes[i].hole_number,
          player_a_score |-> holes[i].player_c_score,
          player_b_score |-> holes[i].player_d_score,
          player_a_net   |-> holes[i].player_c_net,
          player_b_net   |-> holes[i].player_d_net ]]

\* The totals of a computed scorecard as a summary.
TotalsOfScorecard(computed) ==
    [ total_points_a |-> computed.meta.total_points_a,
      total_points_b |-> computed.meta.total_points_b ]

\* A recomputed row and bonus row as the optional rows the tables hold.
StoredRows(recomputed) == [result |-> Some(recomputed.result), bonus |-> recomputed.bonus]

\* An exception that propagates out of the handler.
Raised(value) == "error" \in DOMAIN value

\* _recompute_cd_match_result once the scorecard of C and D is computed:
\* cd_result is the row fetched by the "-cd" key, cd_bonus its match_bonus row.
CdRecomputed(computed, cd_result, cd_bonus, recorded_holes, match_length) ==
    IF Raised(computed) THEN AttributeError
    ELSE IF cd_result = None THEN [result |-> cd_result, bonus |-> cd_bonus]
    ELSE StoredRows(RecomputedFromSummary(Val(cd_result), TotalsOfScorecard(computed),
                                          recorded_holes, match_length, cd_bonus))

\* The C-vs-D row and its match_bonus row after _recompute_cd_match_result;
\* ab_result is the A-vs-B row, holes its non-empty hole records.  The
\* scorecard is asked for with the A-vs-B row and use_snapshot left at True.
_recompute_cd_match_result(ab_result, holes, cd_result, cd_bonus, plyrs, course) ==
    CdRecomputed(_scorecard_data_for_match(ab_result.scorecard_snapshot,
                     RecomputeHolesForCd(holes), plyrs["P3"], plyrs["P4"], course,
                     PyOr(ab_result.hole_count, 18), PyOr(ab_result.start_hole, 1), TRUE),
                 cd_result, cd_bonus, Len(holes), PyOr(ab_result.hole_count, 18))

\* The two entries of the C-vs-D sub-match from its totals and adjusted outcome.
CdStats(points_c, points_d, adjusted) ==
    << [name |-> "P3", role |-> "C", points |-> points_c,
        bonus |-> adjusted.player_a_bonus, total |-> adjusted.player_a_total],
       [name |-> "P4", role |-> "D", points |-> points_d,
        bonus |-> adjusted.player_b_bonus, total |-> adjusted.player_b_total] >>

CdStatsOfPoints(points_c, points_d, recorded_holes, match_length) ==
    CdStats(points_c, points_d,
            _apply_bonus_constraints(score_outcome(points_c, points_d),
                points_c, points_d, recorded_holes, match_length, None))

CdStatsOfSummary(summary, recorded_holes, match_length) ==
    CdStatsOfPoints(summary.total_points_a, summary.total_points_b, recorded_holes,
                    match_length)

CdStatsOfHoles(holes_for_cd, plyrs, course, match_length, start_hole) ==
    CdStatsOfSummary(
        SummaryOfScorecard(
            _scorecard_data_for_match(None, holes_for_cd, plyrs["P3"], plyrs["P4"],
                                      course, match_length, start_hole, FALSE),
            _estimate_points_from_raw_scores(holes_for_cd)),
        Len(holes_for_cd), match_length)

\* result is the _row_to_result dict of the A-vs-B result; holes is non-empty.
_match_cleanup_cd_stats(result, holes, plyrs, course) ==
    CdStatsOfHoles(CleanupHolesForCd(holes), plyrs, course,
        IF IsSome(Get(result, "hole_count")) THEN PyOr(Val(Get(result, "hole_count")), 18) ELSE 18,
        IF IsSome(Get(result, "start_hole")) THEN PyOr(Val(Get(result, "start_hole")), 1) ELSE 1)

\* The loop body of _aggregate_standings_entries for the A-vs-B result of a
\* foursome: its A-vs-B group and its C-vs-D group are both recorded.
FoursomeRecordResult(stats, result, holes, plyrs, course) ==
    IF holes = <<>> /\ result.player_a_total = 0 /\ result.player_b_total = 0
    THEN stats
    ELSE IF holes # <<>>
    THEN RecordGroup(
             RecordGroup(stats, _match_cleanup_ab_stats(result, holes, plyrs, course),
                         Len(holes)),
             _match_cleanup_cd_stats(result, holes, plyrs, course), Len(holes))
    ELSE RecordStored(stats, result, Len(holes))

\* _aggregate_standings_entries over the results of a foursome: the result
\* with the "-cd" key is skipped, the A-vs-B result counts for all four.
FoursomeStandingsEntries(results, holes, plyrs, course) ==
    WithPointDiff(IF results = None THEN [p \in FoursomeNames |-> _empty_stat]
                  ELSE FoursomeRecordResult([p \in FoursomeNames |-> _empty_stat],
                                            _row_to_result(Val(results)), holes, plyrs,
                                            course))

InitFoursome ==
    /\ players \in {plyrs \in [FoursomeNames -> Handicaps] :
                       plyrs["P1"] = 0 /\ plyrs["P2"] = 0}
    /\ course_holes = CourseHoles(CourseSize, 0)
    /\ match \in [hole_count : MatchLengths, start_hole : {1}, finalized : {FALSE}]
    /\ match_result = None
    /\ hole_scores = EmptyDict
    /\ player_hole_scores = EmptyDict
    /\ match_bonus = None
    /\ standings_cache = [p \in FoursomeNames |-> _empty_stat]
    /\ response = NoResponse
    /\ requests = 0
    /\ cd_match_result = None
    /\ cd_player_hole_scores = EmptyDict
    /\ cd_match_bonus = None
    /\ cd_finalized_results = << >>
    /\ divisions = [p \in DOMAIN players |-> "OPEN"]
    /\ match_results = << >>
    /\ scoring_pin = DefaultPin
    /\ in_flight = << >>
    /\ arg = Idle
    /\ ret = None

\* fetch_match_result_by_key of the "-cd" key: ORDER BY submitted_at DESC LIMIT 1
\* over timestamps of whole seconds.  Row 0 is the row inserted together with
\* the A-vs-B row, row k the k-th row finalize_match inserted; which of them
\* comes first depends on the seconds the rows were stored in.
CdRowChoices(inserted) == 0..Len(inserted)

CdRowByKey(k, ensured, inserted) == IF k = 0 THEN ensured ELSE Some(inserted[k].result)

CdBonusByKey(k, ensured_bonus, inserted) == IF k = 0 THEN ensured_bonus ELSE inserted[k].bonus

\* GET of the scorecard of the foursome: _ensure_match_result_for_pairing
\* inserts the A-vs-B row and then the C-vs-D row when the former is missing.
FoursomeScorecardContext ==
    /\ requests' = requests + 1
    /\ IF IsSome(match_result)
       THEN UNCHANGED << match_result, cd_match_result >>
       ELSE /\ match_result' = Some(NewMatchResult(players, match))
            /\ cd_match_result' =
                   Some(_ensure_cd_match_result_for_pairing(cd_match_result, players, match))
    /\ response' = [op |-> "scorecard", status |-> 200]
    /\ UNCHANGED << players, course_holes, match, hole_scores, player_hole_scores,
                    match_bonus, standings_cache, cd_player_hole_scores, cd_match_bonus,
                    cd_finalized_results, tvars, arg, ret >>

\* The rows written for the C-vs-D result: its sides A and B are C and D, and
\* its unnamed sides C and D repeat their scores without strokes.
CdEntries(cd_result, hole_number, scores, plyrs, course) ==
    FourSideRow(<< scores[3], scores[4], scores[3], scores[4] >>,
        StrokesOnHole(_stroke_map_for_result(cd_result, plyrs, course), hole_number),
        NoStrokes)

\* POST /matches/{id}/holes for the A-vs-B result of the foursome with one
\* hole entry; scores are the four gross scores, LeftOut for a missing key.
\* An exception of _recompute_cd_match_result leaves what was written before
\* it and skips the refresh of the standings cache.
FoursomeDetailSubmit(hole_number, scores) ==
    /\ requests' = requests + 1
    /\ IF match_result = None
       THEN /\ response' = [op |-> "submit", status |-> 500]
            /\ UNCHANGED << match_result, hole_scores, player_hole_scores, match_bonus,
                            standings_cache, cdvars >>
       ELSE \E k \in CdRowChoices(cd_finalized_results) :
            \E cd_by_key \in {CdRowByKey(k, cd_match_result, cd_finalized_results)} :
            \E row \in {FoursomeEntries(Val(match_result), cd_by_key, hole_number,
                                        scores, players, course_holes)} :
            \E player_rows \in {ReplaceRow(player_hole_scores, hole_number, row)} :
            \E holes \in {FoursomeHoleList(player_rows)} :
            \E recomputed \in {_recompute_match_result_from_holes(Val(match_result), holes,
                                   match_bonus, players, course_holes)} :
            \E recomputed_cd \in {_recompute_cd_match_result(Val(match_result), holes,
                                      cd_by_key,
                                      CdBonusByKey(k, cd_match_bonus, cd_finalized_results),
                                      players, course_holes)} :
                /\ player_hole_scores' = player_rows
                /\ hole_scores' = ReplaceRow(hole_scores, hole_number, row)
                /\ cd_player_hole_scores' =
                       IF cd_by_key = None \/ k # 0 THEN cd_player_hole_scores
                       ELSE ReplaceRow(cd_player_hole_scores, hole_number,
                                CdEntries(Val(cd_by_key), hole_number, scores,
                                          players, course_holes))
                /\ match_result' = Some(recomputed.result)
                /\ match_bonus' = recomputed.bonus
                /\ IF Raised(recomputed_cd)
                   THEN /\ response' = [op |-> "submit", status |-> 500]
                        /\ UNCHANGED << cd_match_result, cd_match_bonus,
                                        cd_finalized_results, standings_cache >>
                   ELSE /\ cd_match_result' =
                               IF k = 0 THEN recomputed_cd.result ELSE cd_match_result
                        /\ cd_match_bonus' =
                               IF k = 0 THEN recomputed_cd.bonus ELSE cd_match_bonus
                        /\ cd_finalized_results' =
                               IF k = 0 THEN cd_finalized_results
                               ELSE [cd_finalized_results EXCEPT
                                        ![k] = [result |-> Val(recomputed_cd.result),
                                                bonus |-> recomputed_cd.bonus]]
                        /\ standings_cache' =
                               FoursomeStandingsEntries(Some(recomputed.result), holes,
                                                        players, course_holes)
                        /\ response' = [op |-> "submit", status |-> 200, added |-> 1]
    /\ UNCHANGED << players, course_holes, match, tvars, arg, ret >>

\* The C-vs-D row finalize_match inserts, with its match_bonus row: no target
\* carries the names of C and D, so the row is a new one and the bonus
\* override is the dict of two zeros.  source is the A-vs-B row being
\* finalized, holes its hole records.
FinalizedCdResult(source, holes, plyrs, course) ==
    FinalizedFromSummary(
        NewCdMatchResult(plyrs, [hole_count |-> PyOr(source.hole_count, 18),
                                 start_hole |-> PyOr(source.start_hole, 1)]),
        _match_scorecard_summary(source, RecomputeHolesForCd(holes), plyrs, course,
            PyOr(source.hole_count, 18), PyOr(source.start_hole, 1),
            Some(plyrs["P3"]), Some(plyrs["P4"])),
        PyOr(source.hole_count, 18),
        Some([player_a_bonus |-> 0, player_b_bonus |-> 0]))

\* POST /matches/{id}/finalize for the A-vs-B result of the foursome.  The
\* targets are the rows with the match key of the A-vs-B row; the rows with
\* the "-cd" key are not among them.
FoursomeFinalizeMatch ==
    /\ requests' = requests + 1
    /\ \E target \in {_ensure_match_result_for_pairing(match_result, players, match)} :
       \E holes \in {FoursomeHoleList(player_hole_scores)} :
       \E after \in {FinalizeTarget(target, holes, match_bonus, players, course_holes)} :
         /\ match_result' = Some(after.result)
         /\ match_bonus' = after.bonus
         /\ cd_finalized_results' =
                IF target.finalized \/ holes = <<>> THEN cd_finalized_results
                ELSE Append(cd_finalized_results,
                            FinalizedCdResult(target, holes, players, course_holes))
         /\ standings_cache' = FoursomeStandingsEntries(Some(after.result), holes, players,
                                                        course_holes)
    /\ cd_match_result' =
           IF IsSome(match_result) THEN cd_match_result
           ELSE Some(_ensure_cd_match_result_for_pairing(cd_match_result, players, match))
    /\ match' = [match EXCEPT !.finalized = TRUE]
    /\ response' = [op |-> "finalize", status |-> 200, finalized |-> TRUE]
    /\ UNCHANGED << players, course_holes, hole_scores, player_hole_scores,
                    cd_player_hole_scores, cd_match_bonus, tvars, arg, ret >>

\* POST /matches/{id}/reset for the A-vs-B result of the foursome: the rows
\* with its match key are reset, the rows with the "-cd" key are not.
FoursomeResetMatchScores ==
    /\ requests' = requests + 1
    /\ \E result_after \in {reset_match_results(
                                _ensure_match_result_for_pairing(match_result, players, match),
                                score_outcome(0, 0))} :
         /\ match_result' = Some(result_after)
         /\ standings_cache' = FoursomeStandingsEntries(Some(result_after),
                                   FoursomeHoleList(player_hole_scores), players,
                                   course_holes)
    /\ cd_match_result' =
           IF IsSome(match_result) THEN cd_match_result
           ELSE Some(_ensure_cd_match_result_for_pairing(cd_match_result, players, match))
    /\ hole_scores' = EmptyDict
    /\ match' = [match EXCEPT !.finalized = FALSE]
    /\ response' = [op |-> "reset", status |-> 303]
    /\ UNCHANGED << players, course_holes, player_hole_scores, match_bonus,
                    cd_player_hole_scores, cd_match_bonus, cd_finalized_results,
                    tvars, arg, ret >>

foursome_scorecard_context == requests < MaxFoursomeRequests /\ FoursomeScorecardContext

foursome_detail_submit(hole_number, scores) ==
    requests < MaxFoursomeRequests /\ FoursomeDetailSubmit(hole_number, scores)

NextFoursome ==
    \/ foursome_scorecard_context
    \/ \E h \in SubmitHoles, a, b \in MinGross..MaxGross, cd \in CdScores :
           foursome_detail_submit(h, << a, b, cd[1], cd[2] >>)

SpecFoursome == InitFoursome /\ [][NextFoursome]_vars

(***************************************************************************)
(* The foursome from its first scorecard to finalize and reset: longer     *)
(* runs over fewer scores.                                                 *)
(***************************************************************************)
MaxLifeRequests == 5

\* The four gross scores of the holes submitted in these runs.
LifeScores == { << 3, 4, 3, 4 >>, << 4, 4, 4, 3 >>, << 4, 3, 4, 4 >> }

InitFoursomeLife ==
    /\ InitFoursome
    /\ players["P3"] = 0

life_scorecard_context == requests < MaxLifeRequests /\ FoursomeScorecardContext

life_detail_submit(hole_number, scores) ==
    requests < MaxLifeRequests /\ FoursomeDetailSubmit(hole_number, scores)

life_finalize_match == requests < MaxLifeRequests /\ FoursomeFinalizeMatch

life_reset_match_scores == requests < MaxLifeRequests /\ FoursomeResetMatchScores

NextFoursomeLife ==
    \/ life_scorecard_context
    \/ \E h \in SubmitHoles, scores \in LifeScores : life_detail_submit(h, scores)
    \/ life_finalize_match
    \/ life_reset_match_scores

SpecFoursomeLife == InitFoursomeLife /\ [][NextFoursomeLife]_vars

(***************************************************************************)
(* Properties of the function-level runs                                   *)
(***************************************************************************)
(***************************************************************************)
(* The standings page: the tournament's roster, the results stored through *)
(* POST /api/scores (no hole records), the standings cache and GET         *)
(* /standings.  A cache row is [player_name, division, matches, wins,      *)
(* ties, losses, points_for, points_against, point_diff, holes_played].    *)
(***************************************************************************)
StandingsNames == {"P1", "P2", "P3"}

Divisions == {"A", "B"}

\* String order of the player names and of the division names.
NameRank == [P1 |-> 1, P2 |-> 2, P3 |-> 3]

DivisionRank == [A |-> 1, B |-> 2]

\* Points (half units) a result may be posted with: A wins, B wins, tie.
PostedPoints == {<<4, 2>>, <<2, 4>>, <<2, 2>>}

_empty_stat_of(name, division) ==
    [ player_name |-> name, division |-> division, matches |-> 0, wins |-> 0,
      ties |-> 0, losses |-> 0, points_for |-> 0, points_against |-> 0,
      point_diff |-> 0, holes_played |-> 0 ]

\* The loop body of _aggregate_standings_entries for a result without hole
\* records: skipped when both stored totals are 0, each player recorded only
\* when in allowed_players.
RecordAllowed(stats, name, player_total, opponent_total, winner, role) ==
    IF name \in DOMAIN stats
    THEN [stats EXCEPT ![name] = _record_player(@, player_total, opponent_total,
                                                winner, role, 0)]
    ELSE stats

RecordStoredTotals(stats, result) ==
    IF result.player_a_total = 0 /\ result.player_b_total = 0 THEN stats
    ELSE RecordAllowed(
             RecordAllowed(stats, result.player_a_name, result.player_a_total,
                           result.player_b_total, result.winner, "A"),
             result.player_b_name, result.player_b_total, result.player_a_total,
             result.winner, "B")

RECURSIVE RecordAll(_, _)
RecordAll(stats, results) ==
    IF results = << >> THEN stats
    ELSE RecordAll(RecordStoredTotals(stats, Head(results)), Tail(results))

\* _aggregate_standings_entries over the roster: one entry per tournament
\* player; no entries at all for a tournament without players.
StandingsEntriesOfRoster(results, roster) ==
    WithPointDiff(RecordAll([p \in DOMAIN roster |-> _empty_stat_of(p, roster[p])], results))

\* ORDER BY division, points_for DESC, wins DESC, ties DESC, player_name
CacheOrderBefore(x, y) ==
    \/ DivisionRank[x.division] < DivisionRank[y.division]
    \/ /\ x.division = y.division
       /\ \/ x.points_for > y.points_for
          \/ /\ x.points_for = y.points_for
             /\ \/ x.wins > y.wins
                \/ /\ x.wins = y.wins
                   /\ \/ x.ties > y.ties
                      \/ /\ x.ties = y.ties
                         /\ NameRank[x.player_name] < NameRank[y.player_name]

\* Variant of the sort key of build_standings: ties are not compared.
StandingsKeyBefore_no_ties(x, y) ==
    \/ x.points_for > y.points_for
    \/ /\ x.points_for = y.points_for
       /\ \/ x.wins > y.wins
          \/ /\ x.wins = y.wins
             /\ NameRank[x.player_name] < NameRank[y.player_name]

\* key=lambda item: (-points_for, -wins, -ties, name), compared as tuples.
StandingsKeyBefore(x, y) ==
    \/ x.points_for > y.points_for
    \/ /\ x.points_for = y.points_for
       /\ \/ x.wins > y.wins
          \/ /\ x.wins = y.wins
             /\ \/ x.ties > y.ties
                \/ /\ x.ties = y.ties
                   /\ NameRank[x.player_name] < NameRank[y.player_name]

\* The rows of fetch_standings_cache, in the order of its ORDER BY.
RECURSIVE CacheRowsFrom(_, _)
CacheRowsFrom(cache, names) ==
    IF names = {} THEN << >>
    ELSE LET first == CHOOSE p \in names :
                          \A q \in names \ {p} : CacheOrderBefore(cache[p], cache[q])
         IN  <<cache[first]>> \o CacheRowsFrom(cache, names \ {first})

fetch_standings_cache(cache) == CacheRowsFrom(cache, DOMAIN cache)

\* sorted(group, key=...): stable, x goes behind every row not after it.
RECURSIVE InsertPlayer(_, _)
InsertPlayer(s, x) ==
    IF s = << >> THEN <<x>>
    ELSE IF StandingsKeyBefore(x, Head(s)) THEN <<x>> \o s
    ELSE <<Head(s)>> \o InsertPlayer(Tail(s), x)

RECURSIVE SortedPlayers(_)
SortedPlayers(s) ==
    IF s = << >> THEN << >>
    ELSE InsertPlayer(SortedPlayers(SubSeq(s, 1, Len(s) - 1)), s[Len(s)])

\* player["pts_remaining"] = max(0.0, 40 - holes_played)
WithPtsRemaining(row) ==
    [ name |-> row.player_name, division |-> row.division, matches |-> row.matches,
      wins |-> row.wins, ties |-> row.ties, losses |-> row.losses,
      points_for |-> row.points_for, points_against |-> row.points_against,
      point_diff |-> row.point_diff, holes_played |-> row.holes_played,
      pts_remaining |-> IF 40 - row.holes_played > 0 THEN 40 - row.holes_played ELSE 0 ]

DivisionGroup(cache_rows, division) ==
    LET InDivision(row) == row.division = division
        group == SortedPlayers(SelectSeq(cache_rows, InDivision))
    IN  [division |-> division, players |-> [i \in 1..Len(group) |-> WithPtsRemaining(group[i])]]

\* for division in sorted(division_groups): the divisions that have rows.
RECURSIVE SortedDivisions(_, _)
SortedDivisions(cache_rows, divs) ==
    IF divs = {} THEN << >>
    ELSE LET first == CHOOSE d \in divs : \A e \in divs : DivisionRank[d] <= DivisionRank[e]
         IN  <<DivisionGroup(cache_rows, first)>> \o SortedDivisions(cache_rows, divs \ {first})

DivisionsOfRows(cache_rows) ==
    SortedDivisions(cache_rows, {cache_rows[i].division : i \in 1..Len(cache_rows)})

\* Whether build_standings refreshes the cache before answering.
CacheIsStale(cache, plyrs) ==
    \/ DOMAIN cache = {}
    \/ /\ DOMAIN plyrs # {}
       /\ \E name \in DOMAIN cache : name \notin DOMAIN plyrs

build_standings(cache, results, roster) ==
    IF CacheIsStale(cache, roster) THEN StandingsEntriesOfRoster(results, roster) ELSE cache

InitStandings ==
    /\ players = [p \in {"P1", "P2"} |-> 0]
    /\ divisions \in [{"P1", "P2"} -> Divisions]
    /\ match_results = << >>
    /\ scoring_pin = DefaultPin
    /\ in_flight = << >>
    /\ standings_cache = EmptyDict
    /\ course_holes = CourseHoles(CourseSize, 0)
    /\ match = [hole_count |-> 18, start_hole |-> 1, finalized |-> FALSE]
    /\ match_result = None
    /\ hole_scores = EmptyDict
    /\ player_hole_scores = EmptyDict
    /\ match_bonus = None
    /\ response = NoResponse
    /\ requests = 0
    /\ cd_match_result = None
    /\ cd_player_hole_scores = EmptyDict
    /\ cd_match_bonus = None
    /\ cd_finalized_results = << >>
    /\ arg = Idle
    /\ ret = None

standings_frame ==
    UNCHANGED << course_holes, match, match_result, hole_scores, player_hole_scores,
                 match_bonus, cdvars, scoring_pin, in_flight, arg, ret >>

\* POST /admin/tournament_setup/player: upsert by name; the cache is left alone.
add_tournament_player(name, division) ==
    /\ requests < MaxStandingsRequests
    /\ requests' = requests + 1
    /\ players' = [p \in DOMAIN players \cup {name} |-> 0]
    /\ divisions' = [p \in DOMAIN divisions \cup {name} |->
                        IF p = name THEN division ELSE divisions[p]]
    /\ response' = [op |-> "player", status |-> 303]
    /\ UNCHANGED << match_results, standings_cache >>
    /\ standings_frame

ResultsWithout(results, name) ==
    LET Keeps(result) == result.player_a_name # name /\ result.player_b_name # name
    IN  SelectSeq(results, Keeps)

\* POST /admin/tournament_setup/player/delete: delete_player removes the
\* player's results and the player; the cache is left alone.
delete_tournament_player(name) ==
    /\ requests < MaxStandingsRequests
    /\ requests' = requests + 1
    /\ name \in DOMAIN players
    /\ players' = [p \in DOMAIN players \ {name} |-> players[p]]
    /\ divisions' = [p \in DOMAIN divisions \ {name} |-> divisions[p]]
    /\ match_results' = ResultsWithout(match_results, name)
    /\ response' = [op |-> "player", status |-> 303]
    /\ UNCHANGED standings_cache
    /\ standings_frame

\* POST /api/scores for two players of the roster and no scheduled match:
\* the result is inserted with score_outcome's totals, the cache refreshed.
api_scores(player_a, player_b, points) ==
    /\ requests < MaxStandingsRequests
    /\ requests' = requests + 1
    /\ player_a \in DOMAIN players
    /\ player_b \in DOMAIN players
    /\ \E outcome \in {score_outcome(points[1], points[2])} :
       \E results \in {Append(match_results,
                              [ player_a_name |-> player_a, player_b_name |-> player_b,
                                player_a_points |-> outcome.player_a_points,
                                player_b_points |-> outcome.player_b_points,
                                player_a_bonus |-> outcome.player_a_bonus,
                                player_b_bonus |-> outcome.player_b_bonus,
                                player_a_total |-> outcome.player_a_total,
                                player_b_total |-> outcome.player_b_total,
                                winner |-> outcome.winner ])} :
           /\ match_results' = results
           /\ standings_cache' = StandingsEntriesOfRoster(results, divisions)
    /\ response' = [op |-> "scores", status |-> 200]
    /\ UNCHANGED << players, divisions >>
    /\ standings_frame

\* POST /api/refresh-standings
api_refresh_standings ==
    /\ requests < MaxStandingsRequests
    /\ requests' = requests + 1
    /\ standings_cache' = StandingsEntriesOfRoster(match_results, divisions)
    /\ response' = [op |-> "refresh", status |-> 200]
    /\ UNCHANGED << players, divisions, match_results >>
    /\ standings_frame

\* GET /standings: build_standings refreshes a stale cache, then groups and
\* sorts the cache rows.
standings ==
    /\ requests < MaxStandingsRequests
    /\ requests' = requests + 1
    /\ \E cache \in {build_standings(standings_cache, match_results, divisions)} :
           /\ standings_cache' = cache
           /\ response' = [op |-> "standings", status |-> 200,
                           divisions |-> DivisionsOfRows(fetch_standings_cache(cache))]
    /\ UNCHANGED << players, divisions, match_results >>
    /\ standings_frame

NextStandings ==
    \/ \E name \in StandingsNames, division \in Divisions :
           add_tournament_player(name, division)
    \/ \E name \in StandingsNames : delete_tournament_player(name)
    \/ \E player_a, player_b \in StandingsNames, points \in PostedPoints :
           /\ NameRank[player_a] < NameRank[player_b]
           /\ api_scores(player_a, player_b, points)
    \/ api_refresh_standings
    \/ standings

SpecStandings == InitStandings /\ [][NextStandings]_vars

(***************************************************************************)
(* src/gspro-scoring: the stand-alone scoring service.  It stores whole    *)
(* match results posted with the scoring PIN; it has no holes, no roster   *)
(* and no standings cache.                                                 *)
(***************************************************************************)
MaxScoringRequests == 3

\* PINs a client sends and an installation configures.
Pins == {"0000", "1234", "9999"}

\* seed.py get_matches: the first pairing of division A stands for the seeded
\* schedule; any other id is unknown.
SeedMatchIds == {"A-01"}

MatchIds == {"", "A-01", "Z-99"}

\* seed.py get_match_by_id and match_display: the seeded pairing, or None.
get_match_by_id(match_id) ==
    IF match_id \in SeedMatchIds
        THEN Some([ match_name |-> "Division A: Player A1 vs Player A2",
                    player_a |-> "Player A1", player_b |-> "Player A2" ])
        ELSE None

\* The comparison every handler of the service makes before it acts.
PinAccepted_any(pin, configured) == TRUE

PinAccepted(pin, configured) == pin = configured

\* What both submission handlers pass to insert_match_result.
ScoringRow(match_id, player_a_points, player_b_points) ==
    LET resolved == get_match_by_id(match_id)
        outcome == score_outcome(player_a_points, player_b_points)
    IN  [ match_name      |-> IF IsSome(resolved) THEN Val(resolved).match_name ELSE "Match",
          player_a_name   |-> IF IsSome(resolved) THEN Val(resolved).player_a ELSE "P1",
          player_b_name   |-> IF IsSome(resolved) THEN Val(resolved).player_b ELSE "P2",
          player_a_points |-> outcome.player_a_points,
          player_b_points |-> outcome.player_b_points,
          player_a_bonus  |-> outcome.player_a_bonus,
          player_b_bonus  |-> outcome.player_b_bonus,
          player_a_total  |-> outcome.player_a_total,
          player_b_total  |-> outcome.player_b_total,
          winner          |-> outcome.winner ]

\* db.py insert_match_result: one more row, never a replacement.
insert_match_result(results, row) == Append(results, row)

InitScoring ==
    /\ scoring_pin \in Pins
    /\ in_flight = << >>
    /\ match_results = << >>
    /\ players = [p \in {"P1", "P2"} |-> 0]
    /\ divisions = [p \in {"P1", "P2"} |-> "OPEN"]
    /\ standings_cache = EmptyDict
    /\ course_holes = CourseHoles(CourseSize, 0)
    /\ match = [hole_count |-> 18, start_hole |-> 1, finalized |-> FALSE]
    /\ match_result = None
    /\ hole_scores = EmptyDict
    /\ player_hole_scores = EmptyDict
    /\ match_bonus = None
    /\ response = NoResponse
    /\ requests = 0
    /\ cd_match_result = None
    /\ cd_player_hole_scores = EmptyDict
    /\ cd_match_bonus = None
    /\ cd_finalized_results = << >>
    /\ arg = Idle
    /\ ret = None

scoring_frame ==
    UNCHANGED << players, course_holes, match, match_result, hole_scores, player_hole_scores,
                 match_bonus, standings_cache, cdvars, divisions, scoring_pin, in_flight, ret >>

\* POST /api/scores of the scoring service.  arg keeps the payload of the
\* request being answered.
scoring_api_scores(match_id, points, pin) ==
    /\ requests < MaxScoringRequests
    /\ requests' = requests + 1
    /\ arg' = [fn |-> "api_scores", match_id |-> match_id, pin |-> pin]
    /\ IF ~PinAccepted(pin, scoring_pin)
           THEN /\ response' = [op |-> "api_scores", status |-> 403]
                /\ UNCHANGED match_results
           ELSE /\ match_results' = insert_match_result(match_results,
                                        ScoringRow(match_id, points[1], points[2]))
                /\ response' = [op |-> "api_scores", status |-> 200]
    /\ scoring_frame

\* POST /submit: the form of the scoring page; a wrong PIN renders the page
\* again with a message, with status 200.
scoring_submit(match_id, points, pin) ==
    /\ requests < MaxScoringRequests
    /\ requests' = requests + 1
    /\ arg' = [fn |-> "submit", match_id |-> match_id, pin |-> pin]
    /\ IF ~PinAccepted(pin, scoring_pin)
           THEN UNCHANGED match_results
           ELSE match_results' = insert_match_result(match_results,
                                     ScoringRow(match_id, points[1], points[2]))
    /\ response' = [op |-> "submit", status |-> 200]
    /\ scoring_frame

\* GET /admin: lists the stored results to a caller who knows the PIN.
scoring_admin(pin) ==
    /\ requests < MaxScoringRequests
    /\ requests' = requests + 1
    /\ arg' = [fn |-> "admin", match_id |-> "", pin |-> pin]
    /\ response' = [op |-> "admin", status |-> 200]
    /\ UNCHANGED match_results
    /\ scoring_frame

NextScoring ==
    \/ \E match_id \in MatchIds, points \in PostedPoints, pin \in Pins :
           scoring_api_scores(match_id, points, pin)
    \/ \E match_id \in MatchIds, points \in PostedPoints, pin \in Pins :
           scoring_submit(match_id, points, pin)
    \/ \E pin \in Pins : scoring_admin(pin)

SpecScoring == InitScoring /\ [][NextScoring]_vars

Returned(fn) == arg.fn = fn /\ IsSome(ret)

\* Display points of a row as a number: an absent value counts 0.
Shown(points) == IF IsSome(points) THEN Val(points) ELSE 0

BothNets(row) == IsSome(row.net_a) /\ IsSome(row.net_b)

\* C1: in every scorecard built by _build_scorecard_rows each row with both
\* nets present gives points_a + points_b = 1 (1/0, 0/1 or 0.5/0.5), each row
\* with a missing net gives 0 to both sides, and meta total_points_a +
\* total_points_b is the number of rows with both nets present.
C1_RowPointsSumToOne ==
    Returned("_build_scorecard_rows") =>
        LET rows == Val(ret).rows
            meta == Val(ret).meta
        IN  /\ \A i \in DOMAIN rows :
                    IF BothNets(rows[i])
                    THEN <<Shown(rows[i].points_a), Shown(rows[i].points_b)>>
                            \in {<<2, 0>>, <<0, 2>>, <<1, 1>>}
                    ELSE rows[i].points_a = None /\ rows[i].points_b = None
            /\ meta.total_points_a + meta.total_points_b
                    = 2 * Cardinality({i \in DOMAIN rows : BothNets(rows[i])})

\* C1 witness: a built scorecard with a hole won by A and a halved hole.
C1_Witness ==
    /\ Returned("_build_scorecard_rows")
    /\ \E i, j \in DOMAIN Val(ret).rows :
            /\ Val(ret).rows[i].result = "A"
            /\ Val(ret).rows[j].result = "Halved"
    /\ Val(ret).meta.total_points_a = 3
    /\ Val(ret).meta.total_points_b = 1

\* C2: _stroke_allocation(D, holes) sums to D for every non-negative multiple
\* of 0.5 and every non-empty hole set; in every built scorecard the side with
\* the lower handicap has 0 strokes on every hole and the other side's
\* per-hole strokes sum to |handicap_a - handicap_b| in an 18-hole match and
\* to half of it in a 9-hole match, which is meta stroke_count.
C2_StrokesSumToDifferential ==
    /\ Returned("_stroke_allocation") =>
            SumOver(Val(ret), DOMAIN Val(ret)) = arg.total_strokes
    /\ Returned("_build_scorecard_rows") =>
            LET rows == Val(ret).rows
                diff == arg.handicap_a - arg.handicap_b
                expected == IF arg.match_length = 9 THEN Abs(diff) ELSE 2 * Abs(diff)
                sum_a == SumSeq([i \in DOMAIN rows |-> rows[i].strokes_a])
                sum_b == SumSeq([i \in DOMAIN rows |-> rows[i].strokes_b])
            IN  /\ diff <= 0 => \A i \in DOMAIN rows : rows[i].strokes_a = 0
                /\ diff >= 0 => \A i \in DOMAIN rows : rows[i].strokes_b = 0
                /\ diff > 0 => sum_a = expected
                /\ diff < 0 => sum_b = expected
                /\ Val(ret).meta.stroke_count = expected

\* C2 witness: a scorecard built for sides with different handicaps.
C2_Witness ==
    /\ Returned("_build_scorecard_rows")
    /\ arg.handicap_a > arg.handicap_b
    /\ Val(ret).meta.stroke_owner = Some("A")
    /\ \E i \in DOMAIN Val(ret).rows : Val(ret).rows[i].strokes_a > 0

\* Eligibility as the rule states it, from the call's own arguments.
Eligible == arg.recorded_holes >= arg.match_length \/ arg.recorded_holes \in {9, 18}

\* C4: when the recorded hole count is below match_length and is neither 9
\* nor 18, _apply_bonus_constraints returns bonus 0 for both sides and totals
\* equal to the raw points; otherwise the bonus is applied (the outcome's, or
\* the stored override's), each total being points plus bonus.  5 v 3 with 10
\* of 18 holes gives bonus_a 0, with 18 of 18 holes bonus_a 1.0, total_a 6.0.
C4_BonusGate ==
    Returned("_apply_bonus_constraints") =>
        LET out == Val(ret)
            rule == score_outcome(arg.total_a, arg.total_b)
        IN  /\ ~Eligible =>
                    /\ out.player_a_bonus = 0 /\ out.player_b_bonus = 0
                    /\ out.player_a_total = arg.total_a /\ out.player_b_total = arg.total_b
            /\ Eligible /\ arg.bonus_override = None =>
                    /\ out.player_a_bonus = rule.player_a_bonus
                    /\ out.player_b_bonus = rule.player_b_bonus
            /\ Eligible /\ arg.bonus_override # None =>
                    /\ out.player_a_bonus = Val(arg.bonus_override).player_a_bonus
                    /\ out.player_b_bonus = Val(arg.bonus_override).player_b_bonus
            /\ Eligible =>
                    /\ out.player_a_total = arg.total_a + out.player_a_bonus
                    /\ out.player_b_total = arg.total_b + out.player_b_bonus
            /\ (arg.total_a = 10 /\ arg.total_b = 6 /\ arg.match_length = 18
                    /\ arg.bonus_override = None) =>
                    /\ arg.recorded_holes = 10 => out.player_a_bonus = 0
                    /\ arg.recorded_holes = 18 =>
                            out.player_a_bonus = 2 /\ out.player_a_total = 12

\* C4 witness: 5 v 3 after 9 of 18 holes, the milestone opens the gate.
C4_Witness ==
    /\ Returned("_apply_bonus_constraints")
    /\ arg.total_a = 10 /\ arg.total_b = 6
    /\ arg.recorded_holes = 9 /\ arg.match_length = 18
    /\ arg.bonus_override = None
    /\ Val(ret).player_a_bonus = 2
    /\ Val(ret).player_a_total = 12

\* The bonus of a side as the code awards it when the match is eligible.
WinnerOrTieBonus(points, opponent_points) ==
    IF points > opponent_points /\ points >= 10 THEN 2
    ELSE IF points = opponent_points /\ points >= 9 THEN 1
    ELSE 0

C6_WinnerBonusTotal ==
    Returned("score_outcome") =>
        LET a == arg.player_a_points
            b == arg.player_b_points
            out == Val(ret)
        IN  /\ out.winner = (IF a > b THEN "A" ELSE IF a < b THEN "B" ELSE "T")
            /\ (a > b /\ a >= 10) => (out.player_a_bonus = 2 /\ out.player_b_bonus = 0)
            /\ (b > a /\ b >= 10) => (out.player_b_bonus = 2 /\ out.player_a_bonus = 0)
            /\ a < b => out.player_a_bonus = 0
            /\ b < a => out.player_b_bonus = 0
            /\ out.player_a_total = a + out.player_a_bonus
            /\ out.player_b_total = b + out.player_b_bonus
            /\ (a = 12 /\ b = 8) =>
                    /\ out.player_a_bonus = 2 /\ out.player_b_bonus = 0
                    /\ out.player_a_total = 14 /\ out.player_b_total = 8
                    /\ out.winner = "A"

\* C6 witness: 6 v 5, the loser has 5 points or more and still no bonus.
C6_Witness ==
    /\ Returned("score_outcome")
    /\ arg.player_a_points = 12 /\ arg.player_b_points = 10
    /\ Val(ret).winner = "A"
    /\ Val(ret).player_a_bonus = 2 /\ Val(ret).player_b_bonus = 0

RecordedHoles == fetch_hole_scores(player_hole_scores, hole_scores)

\* A scorecard was answered by the last request.
ScorecardShown == response.op = "scorecard" /\ response.status = 200

RowNetIsGrossMinusStrokes(row) ==
    /\ row.net_a = (IF IsSome(row.gross_a) THEN Some(2 * Val(row.gross_a) - row.strokes_a)
                    ELSE None)
    /\ row.net_b = (IF IsSome(row.gross_b) THEN Some(2 * Val(row.gross_b) - row.strokes_b)
                    ELSE None)

RowResultFollowsNets(row) ==
    IF IsSome(row.gross_a) /\ IsSome(row.gross_b)
    THEN LET net_a == 2 * Val(row.gross_a) - row.strokes_a
             net_b == 2 * Val(row.gross_b) - row.strokes_b
         IN  /\ net_a < net_b => row.result = "A" /\ row.points_a = Some(2)
                                  /\ row.points_b = None
             /\ net_b < net_a => row.result = "B" /\ row.points_b = Some(2)
                                  /\ row.points_a = None
             /\ net_a = net_b => row.result = "Halved" /\ row.points_a = Some(1)
                                  /\ row.points_b = Some(1)
    ELSE row.result = "--" /\ row.points_a = None /\ row.points_b = None

\* C3: on every row of a scorecard that is shown, each side's net is its gross
\* minus the strokes the row allocates to it (absent without a gross), the lower
\* net wins the hole, equal nets halve it, and a hole without both grosses has no
\* result and no points.
C3_NetIsGrossMinusStrokes ==
    ScorecardShown =>
        \A i \in DOMAIN response.scorecard.rows :
            /\ RowNetIsGrossMinusStrokes(response.scorecard.rows[i])
            /\ RowResultFollowsNets(response.scorecard.rows[i])

\* C3 witness: a scorecard is shown with a recorded hole on which a side has strokes.
C3_Witness ==
    /\ ScorecardShown
    /\ \E i \in DOMAIN response.scorecard.rows :
            /\ IsSome(response.scorecard.rows[i].gross_a)
            /\ response.scorecard.rows[i].strokes_a > 0

\* C8: a finalize request for a match without recorded holes is answered with an
\* error and leaves the match result as it was: not finalized, without snapshot,
\* with the points, bonus and totals it had.
C8_FinalizeWithoutHolesFails ==
    [][ (finalize_match /\ RecordedHoles = <<>>) =>
            LET before == _ensure_match_result_for_pairing(match_result, players, match)
                after == Val(match_result')
            IN  /\ response'.status >= 400
                /\ ~after.finalized
                /\ after.scorecard_snapshot = None
                /\ after.player_a_points = before.player_a_points
                /\ after.player_b_points = before.player_b_points
                /\ after.player_a_bonus = before.player_a_bonus
                /\ after.player_b_bonus = before.player_b_bonus
                /\ after.player_a_total = before.player_a_total
                /\ after.player_b_total = before.player_b_total ]_vars

\* C8 witness: a finalize request was served for a match without recorded holes.
C8_Witness == response.op = "finalize" /\ RecordedHoles = <<>>

\* The stored scorecard snapshot of the match holds rows.
SnapshotHoldsRows ==
    /\ IsSome(match_result)
    /\ IsSome(Val(match_result).scorecard_snapshot)
    /\ "rows" \in DOMAIN Val(Val(match_result).scorecard_snapshot).json
    /\ Val(Val(match_result).scorecard_snapshot).json.rows # <<>>

\* C9: when the scorecard of a finalized match whose snapshot holds rows is read,
\* the answer is the snapshot's rows and course, whatever the course data,
\* handicaps and hole records are now.
C9_FinalizedReadReturnsSnapshot ==
    (response.op = "scorecard" /\ SnapshotHoldsRows /\ Val(match_result).finalized) =>
        /\ response.status = 200
        /\ response.scorecard.rows = Val(Val(match_result).scorecard_snapshot).json.rows
        /\ response.scorecard.course = Val(Val(match_result).scorecard_snapshot).json.course

\* C9 witness: the scorecard of a finalized match whose snapshot holds rows was read.
C9_Witness ==
    response.op = "scorecard" /\ SnapshotHoldsRows /\ Val(match_result).finalized

\* C10: after a reset the match has no hole records, no snapshot, zero points,
\* bonus and totals, no bonus override other than zero, is not finalized, and
\* the rebuilt standings credit its players with nothing.
C10_ResetClearsMatch ==
    response.op = "reset" =>
        /\ RecordedHoles = <<>>
        /\ Val(match_result).scorecard_snapshot = None
        /\ Val(match_result).player_a_points = 0 /\ Val(match_result).player_b_points = 0
        /\ Val(match_result).player_a_bonus = 0 /\ Val(match_result).player_b_bonus = 0
        /\ Val(match_result).player_a_total = 0 /\ Val(match_result).player_b_total = 0
        /\ ~Val(match_result).finalized
        /\ ~match.finalized
        /\ match_bonus \in {None, Some([player_a_bonus |-> 0, player_b_bonus |-> 0])}
        /\ \A p \in PlayerNames : standings_cache[p] = _empty_stat

\* C10 witness: a match with recorded holes was reset.
C10_Witness == response.op = "reset" /\ player_hole_scores # EmptyDict

\* The match result is stored and finalized.
Finalized == IsSome(match_result) /\ Val(match_result).finalized

\* Some hole submission is served.
SomeSubmit == \E h \in SubmitHoles, a, b \in MinGross..MaxGross : match_detail_submit(h, a, b)

\* C11: a hole submission for a finalized match changes neither the stored
\* points, bonus, total and winner of the match nor any standings entry.
C11_FinalizedIgnoresSubmission ==
    [][ (SomeSubmit /\ Finalized) =>
            /\ Val(match_result').player_a_points = Val(match_result).player_a_points
            /\ Val(match_result').player_b_points = Val(match_result).player_b_points
            /\ Val(match_result').player_a_bonus = Val(match_result).player_a_bonus
            /\ Val(match_result').player_b_bonus = Val(match_result).player_b_bonus
            /\ Val(match_result').player_a_total = Val(match_result).player_a_total
            /\ Val(match_result').player_b_total = Val(match_result).player_b_total
            /\ Val(match_result').winner = Val(match_result).winner
            /\ standings_cache' = standings_cache ]_vars

\* C11 witness: a hole submission was served for a finalized match.
C11_Witness == response.op = "submit" /\ response.status = 200 /\ Finalized

\* C12: while a match is finalized, every operation other than reset leaves
\* its stored snapshots as they are and leaves it finalized.
C12_SnapshotKeptUntilReset ==
    [][ (Finalized /\ ~reset_match_scores) =>
            /\ Val(match_result').finalized
            /\ Val(match_result').scorecard_snapshot = Val(match_result).scorecard_snapshot
            /\ Val(match_result').course_snapshot = Val(match_result).course_snapshot ]_vars

\* C12 witness: a finalized match with a snapshot of scorecard rows has served
\* a hole submission or a bonus update.
C12_Witness ==
    /\ SnapshotHoldsRows
    /\ Val(match_result).finalized
    /\ response.op \in {"submit", "bonus"}
    /\ response.status = 200

(***************************************************************************)
(* Properties of the foursome pairing                                      *)
(***************************************************************************)
\* Holes are recorded and every recorded hole has A and B scores only.
OnlyAbScored ==
    /\ IsSome(match_result)
    /\ player_hole_scores # EmptyDict
    /\ \A h \in DOMAIN player_hole_scores :
          /\ player_hole_scores[h].player_c_score = LeftOut
          /\ player_hole_scores[h].player_d_score = LeftOut

\* C13: while only A and B scores are recorded for a foursome, the A-vs-B
\* result has one point per recorded hole and A and B have the match in the
\* standings, the C-vs-D result has no points, and C and D have no match and
\* no points in the standings.
C13_CdWithoutScoresHasNoResult ==
    OnlyAbScored =>
        /\ Val(match_result).player_a_points + Val(match_result).player_b_points
              = 2 * Cardinality(DOMAIN player_hole_scores)
        /\ standings_cache["P1"].matches = 1
        /\ standings_cache["P2"].matches = 1
        /\ IsSome(cd_match_result) =>
              /\ Val(cd_match_result).player_a_points = 0
              /\ Val(cd_match_result).player_b_points = 0
              /\ Val(cd_match_result).player_a_total = 0
              /\ Val(cd_match_result).player_b_total = 0
        /\ standings_cache["P3"] = _empty_stat
        /\ standings_cache["P4"] = _empty_stat

\* C13 witness: a hole with A and B scores only was submitted for the foursome
\* whose C-vs-D result exists.
C13_Witness == OnlyAbScored /\ IsSome(cd_match_result) /\ response.op = "submit"

\* The two totals (points + bonus) of a sub-match, from its entries.
MatchTotals(group) ==
    << group[1].points + group[1].bonus, group[2].points + group[2].bonus >>

\* What the aggregation has to add to one player of a sub-match.
Credited(own_total, opponent_total, holes_played) ==
    [ matches |-> 1,
      wins |-> IF own_total > opponent_total THEN 1 ELSE 0,
      ties |-> IF own_total = opponent_total THEN 1 ELSE 0,
      losses |-> IF own_total < opponent_total THEN 1 ELSE 0,
      points_for |-> own_total,
      points_against |-> opponent_total,
      point_diff |-> own_total - opponent_total,
      holes_played |-> holes_played ]

CreditedBoth(entries, totals, holes_played) ==
    /\ entries["P1"] = Credited(totals[1], totals[2], holes_played)
    /\ entries["P2"] = Credited(totals[2], totals[1], holes_played)

\* C14: for a sub-match with recorded holes the aggregator adds to each of
\* its two players one match, points_for = own total (points + bonus),
\* points_against = the opponent's total (points + bonus), one win, tie or
\* loss by comparing the totals, and holes_played = the recorded hole count.
C14_AggregatorAddsMatchTotals ==
    (Returned("_aggregate_standings_entries") /\ arg.holes # <<>>) =>
        CreditedBoth(Val(ret),
            MatchTotals(_match_cleanup_ab_stats(_row_to_result(arg.result), arg.holes,
                                                players, course_holes)),
            Len(arg.holes))

\* A decided nine-hole match has been aggregated: its winner holds a bonus
\* and is credited the total.
C14_Witness ==
    /\ Returned("_aggregate_standings_entries")
    /\ Len(arg.holes) = 9
    /\ Val(ret)["P1"].wins = 1
    /\ Val(ret)["P1"].points_for > 2 * 9 - Val(ret)["P2"].points_for

(***************************************************************************)
(* Properties of the standings page                                        *)
(***************************************************************************)
\* The step just taken answered GET /standings.
StandingsServed == requests' = requests + 1 /\ response'.op = "standings"

\* No cache rows, or the cached names are not exactly the roster's names.
CacheDisagrees == DOMAIN standings_cache = {} \/ DOMAIN standings_cache # DOMAIN divisions

\* C15: GET /standings rebuilds the cache from the results and the roster
\* whenever there are no cache rows or the cached player names differ from the
\* roster's names in either direction, and otherwise leaves the cache as it is.
C15_RebuildWhenRosterDiffers ==
    [][StandingsServed =>
          IF CacheDisagrees
          THEN standings_cache' = StandingsEntriesOfRoster(match_results, divisions)
          ELSE standings_cache' = standings_cache]_vars

\* The standings were served for a roster holding a player the cache lacks.
C15_Witness ==
    /\ response.op = "standings"
    /\ DOMAIN standings_cache # {}
    /\ \E name \in DOMAIN divisions : name \notin DOMAIN standings_cache

PlayersOf(group) == {group.players[i].name : i \in 1..Len(group.players)}

\* Row x stands above row y: more points_for, then more wins, then more
\* ties, then the smaller name.
StandsAbove(x, y) ==
    \/ x.points_for > y.points_for
    \/ x.points_for = y.points_for /\ x.wins > y.wins
    \/ x.points_for = y.points_for /\ x.wins = y.wins /\ x.ties > y.ties
    \/ /\ x.points_for = y.points_for /\ x.wins = y.wins /\ x.ties = y.ties
       /\ NameRank[x.name] < NameRank[y.name]

GroupInOrder(group) ==
    \A i, j \in 1..Len(group.players) :
        i < j => StandsAbove(group.players[i], group.players[j])

\* Every cached player is in the group of its division and in no other.
EachCachedPlayerOnce(cache, groups) ==
    /\ \A i, j \in 1..Len(groups) : i # j => groups[i].division # groups[j].division
    /\ \A i \in 1..Len(groups) :
          /\ PlayersOf(groups[i]) = {p \in DOMAIN cache : cache[p].division = groups[i].division}
          /\ Len(groups[i].players) = Cardinality(PlayersOf(groups[i]))
    /\ \A p \in DOMAIN cache : \E i \in 1..Len(groups) : groups[i].division = cache[p].division

\* C17: within each division build_standings returns the players by
\* points_for descending, then wins descending, then ties descending, then
\* name ascending, and every cached player appears in exactly one division
\* group.
C17_StandingsOrder ==
    [][StandingsServed =>
          /\ \A i \in 1..Len(response'.divisions) : GroupInOrder(response'.divisions[i])
          /\ EachCachedPlayerOnce(standings_cache', response'.divisions)]_vars

\* Served standings in which two players of one division with equal
\* points_for and wins are separated by their ties, next to a second division.
C17_Witness ==
    /\ response.op = "standings"
    /\ Len(response.divisions) = 2
    /\ \E i \in 1..Len(response.divisions) :
       \E k \in 1..(Len(response.divisions[i].players) - 1) :
          /\ response.divisions[i].players[k].points_for
                = response.divisions[i].players[k + 1].points_for
          /\ response.divisions[i].players[k].wins = response.divisions[i].players[k + 1].wins
          /\ response.divisions[i].players[k].ties > response.divisions[i].players[k + 1].ties
          /\ NameRank[response.divisions[i].players[k].name]
                > NameRank[response.divisions[i].players[k + 1].name]

\* The aggregation of the call's hole records with another stored outcome on
\* the match result.
AggregatedWith(outcome) ==
    _aggregate_standings_entries(Some(StoredResult(outcome)), arg.holes, players, course_holes)

\* C16: the aggregation is a function of the results, hole records, roster
\* and course (it writes nothing, so a second run returns the same entries),
\* and for a match with at least one recorded hole the entries are the same
\* whatever points, bonus, total and winner the match result stores.
C16_AggregationIgnoresStoredTotals ==
    (Returned("_aggregate_standings_entries") /\ arg.holes # <<>>) =>
        \A outcome \in StoredOutcomes : Val(ret) = AggregatedWith(outcome)

\* A match with hole records won by A was aggregated while its row stored a
\* win of B.
C16_Witness ==
    /\ Returned("_aggregate_standings_entries")
    /\ arg.holes # <<>>
    /\ arg.result.winner = "B"
    /\ Val(ret)["P1"].wins = 1

\* The step just taken answered a scorecard view with a status.
ScorecardServed ==
    /\ requests' = requests + 1
    /\ response'.op = "scorecard"
    /\ "status_info" \in DOMAIN response'

\* The status of a match that is not finalized, by its recorded holes.
StatusByHoles(recorded, match_length) ==
    IF recorded = 0 THEN "not_started"
    ELSE IF recorded < match_length THEN "in_progress"
    ELSE "completed"

\* C18: unless the match is finalized, the status reported for it is
\* not_started exactly when it has no hole records, in_progress exactly when
\* between 1 and match_length - 1 holes are recorded, and completed exactly
\* when all match_length holes are recorded.
C18_StatusFollowsRecordedHoles ==
    [][(ScorecardServed /\ ~(IsSome(match_result) /\ Val(match_result).finalized)) =>
          response'.status_info
              = StatusByHoles(Len(fetch_hole_scores(player_hole_scores, hole_scores)),
                              PyOr(match.hole_count, 18))]_vars

\* The status was reported for a match that has a result row and no hole
\* records.
C18_Witness ==
    /\ response.op = "scorecard"
    /\ "status_info" \in DOMAIN response
    /\ response.status_info = "in_progress"
    /\ IsSome(match_result)
    /\ ~Val(match_result).finalized
    /\ player_hole_scores = EmptyDict
    /\ hole_scores = EmptyDict

\* Position of a hole when the holes are visited by ascending stroke index
\* and, among equal stroke indices, by ascending hole number.
VisitRank(hole, course) ==
    1 + Cardinality({i \in DOMAIN course :
                        \/ course[i].handicap < hole.handicap
                        \/ /\ course[i].handicap = hole.handicap
                           /\ course[i].hole_number < hole.hole_number})

\* Half units of the hole at position rank: the base for every hole, one
\* more whole stroke for the first `whole` holes, the last half for the next.
AllocatedAt(rank, base, whole, half) ==
    2 * base + (IF rank <= whole THEN 2 ELSE IF rank = whole + 1 THEN half ELSE 0)

ExpectedAllocation(total_strokes, course, base) ==
    [n \in {course[i].hole_number : i \in DOMAIN course} |->
        AllocatedAt(VisitRank(CHOOSE hole \in Range(course) : hole.hole_number = n, course),
                    base,
                    (total_strokes - 2 * base * Len(course)) \div 2,
                    (total_strokes - 2 * base * Len(course)) % 2)]

\* C19: _stroke_allocation gives every hole floor(D / hole_count) strokes,
\* the remaining whole strokes one per hole to the holes of lowest stroke
\* index, and a final half stroke to the next hole; the holes are taken by
\* ascending stroke index and, among equal stroke indices, by ascending hole
\* number, whatever the order of the active holes (a start at a later hole
\* wraps around).
C19_StrokesByIndexThenHoleNumber ==
    Returned("_stroke_allocation") =>
        Val(ret) = ExpectedAllocation(arg.total_strokes, arg.course_holes,
                                      arg.total_strokes \div (2 * Len(arg.course_holes)))

\* Strokes were allocated over holes that wrap around, two of them with the
\* same stroke index, and the later-numbered one got more.
C19_Witness ==
    /\ Returned("_stroke_allocation")
    /\ arg.course_holes \in WrappedCourses
    /\ \E i, j \in DOMAIN arg.course_holes :
          /\ i < j
          /\ arg.course_holes[i].handicap = arg.course_holes[j].handicap
          /\ arg.course_holes[i].hole_number > arg.course_holes[j].hole_number
          /\ Val(ret)[arg.course_holes[i].hole_number]
                > Val(ret)[arg.course_holes[j].hole_number]

HoleNumbersOf(course) == {course[i].hole_number : i \in DOMAIN course}

\* The hole played after hole n on a course: the next higher hole number, or
\* the lowest one after the highest.
NextHoleOn(numbers, n) ==
    IF \E later \in numbers : later > n
    THEN CHOOSE later \in numbers : later > n /\ \A x \in numbers : x > n => later <= x
    ELSE CHOOSE first \in numbers : \A x \in numbers : first <= x

ActiveRowsAsStated(rows, numbers, match_length, start_hole) ==
    /\ Len(rows) = match_length
    /\ rows[1].hole_number = start_hole
    /\ \A i \in 1..(Len(rows) - 1) :
          rows[i + 1].hole_number = NextHoleOn(numbers, rows[i].hole_number)
    /\ \A i, j \in 1..Len(rows) : i # j => rows[i].hole_number # rows[j].hole_number

\* C20: for any course hole list, match_length 9 or 18 and start_hole, the
\* rows of a scorecard are exactly match_length, begin at start_hole, follow
\* ascending hole number with wrap-around, and hold no hole number twice.
C20_ActiveHolesDistinct ==
    Returned("_build_scorecard_rows") =>
        ActiveRowsAsStated(Val(ret).rows, HoleNumbersOf(arg.course_holes),
                           arg.match_length, arg.start_hole)

\* A scorecard of an 18-hole match was built on the nine-hole course.
C20_Witness ==
    /\ Returned("_build_scorecard_rows")
    /\ arg.match_length = 18
    /\ Len(arg.course_holes) = ShortCourseSize
    /\ Len(Val(ret).rows) = 18
    /\ Val(ret).rows[10].hole_number = Val(ret).rows[1].hole_number

(***************************************************************************)
(* Properties of the bonus, the foursome results and the cache             *)
(***************************************************************************)
\* The hole records of the pairing as the handlers fetch them.
StoredHoles == fetch_hole_scores(player_hole_scores, hole_scores)

\* C21: a stored bonus override replaces the computed bonus only when the
\* recorded hole count passes the eligibility gate: a match result whose
\* recorded hole count is ineligible stores bonus 0 for both players,
\* whatever the override and whichever handler wrote it, finalize included.
C21_IneligibleMatchHasNoBonus ==
    (IsSome(match_result)
        /\ ~_bonus_allowed(Len(StoredHoles), PyOr(Val(match_result).hole_count, 18))) =>
        /\ Val(match_result).player_a_bonus = 0
        /\ Val(match_result).player_b_bonus = 0

\* A match with one recorded hole and a manual bonus was finalized.
C21_Witness ==
    /\ IsSome(match_result)
    /\ Val(match_result).finalized
    /\ Len(StoredHoles) = 1
    /\ IsSome(match_bonus)
    /\ Val(match_bonus).player_a_bonus > 0

\* The call is the worked example: handicaps 12 and 6 on the 18 holes whose
\* stroke index is the hole number.
ScenarioBuilt ==
    /\ Returned("_build_scorecard_rows")
    /\ arg.handicap_a = 12
    /\ arg.handicap_b = 6

\* A has one stroke on holes 1..6 and none on holes 7..18; B has none.
ScenarioStrokes(rows) ==
    \A i \in DOMAIN rows :
        /\ rows[i].strokes_a = IF rows[i].hole_number <= 6 THEN 2 ELSE 0
        /\ rows[i].strokes_b = 0

\* C22 as stated: in the worked example A has one stroke on holes 1..6 and
\* the final raw points are A 9 and B 9, a tie.
C22_ScenarioIsTie ==
    ScenarioBuilt =>
        /\ ScenarioStrokes(Val(ret).rows)
        /\ Val(ret).meta.total_points_a = 2 * 9
        /\ Val(ret).meta.total_points_b = 2 * 9
        /\ score_outcome(Val(ret).meta.total_points_a, Val(ret).meta.total_points_b).winner = "T"

\* C22: in the worked example A has one stroke on holes 1..6 and none on
\* holes 7..18, wins all six stroke holes, loses the three holes where A is
\* one worse and halves the other nine: the final raw points are A 10.5 and
\* B 7.5 and A wins the match.
C22_ScenarioGoesToA ==
    ScenarioBuilt =>
        /\ ScenarioStrokes(Val(ret).rows)
        /\ Val(ret).meta.total_points_a = 21
        /\ Val(ret).meta.total_points_b = 15
        /\ score_outcome(Val(ret).meta.total_points_a, Val(ret).meta.total_points_b).winner = "A"

\* The worked example was scored: a stroke hole with equal gross went to A.
C22_Witness ==
    /\ ScenarioBuilt
    /\ \E i \in DOMAIN Val(ret).rows :
          /\ Val(ret).rows[i].strokes_a = 2
          /\ Val(ret).rows[i].gross_a = Val(ret).rows[i].gross_b
          /\ Val(ret).rows[i].points_a = Some(2)

CdPointsOfScores ==
    TotalsOfScorecard(
        _build_scorecard_rows(RecomputeHolesForCd(FoursomeHoleList(player_hole_scores)),
                              players["P3"], players["P4"], course_holes,
                              PyOr(match.hole_count, 18), PyOr(match.start_hole, 1)))

\* A C-vs-D row that carries the given points, no bonus while the match is
\* not eligible for one, and the winner by points.
CdRowShows(row, totals) ==
    /\ row.player_a_points = totals.total_points_a
    /\ row.player_b_points = totals.total_points_b
    /\ row.player_a_total = row.player_a_points + row.player_a_bonus
    /\ row.player_b_total = row.player_b_points + row.player_b_bonus
    /\ ~_bonus_allowed(Cardinality(DOMAIN player_hole_scores), PyOr(match.hole_count, 18)) =>
           (row.player_a_bonus = 0 /\ row.player_b_bonus = 0)
    /\ row.winner = score_outcome(totals.total_points_a, totals.total_points_b).winner

\* C24: after every hole submission of a foursome the C-vs-D result is the
\* one computed from the C and D scores and handicaps only, whatever the A and
\* B scores are and whether or not the A-vs-B result is finalized.
C24_CdResultFromCdScoresOnly ==
    (response.op = "submit" /\ IsSome(cd_match_result)) =>
        CdRowShows(Val(cd_match_result), CdPointsOfScores)

\* C24 witness: a hole submitted after the A-vs-B result was finalized, that
\* left the C-vs-D result without the points of the hole.
C24_Witness ==
    /\ response.op = "submit"
    /\ IsSome(match_result) /\ Val(match_result).finalized
    /\ IsSome(cd_match_result)
    /\ Cardinality(DOMAIN player_hole_scores) = 2
    /\ Val(cd_match_result).player_a_points + Val(cd_match_result).player_b_points = 2

\* Every stored row with the "-cd" key of the pairing.
CdRowsStored ==
    (IF IsSome(cd_match_result) THEN {Val(cd_match_result)} ELSE {})
        \cup {cd_finalized_results[k].result : k \in DOMAIN cd_finalized_results}

\* C25: whenever the A-vs-B result of a foursome exists, its C-vs-D result
\* exists with the same hole_count and start_hole, and every C-vs-D row has
\* the finalized flag of the A-vs-B row.
C25_CdFollowsAb ==
    IsSome(match_result) =>
        /\ IsSome(cd_match_result)
        /\ \A row \in CdRowsStored :
              /\ row.hole_count = Val(match_result).hole_count
              /\ row.start_hole = Val(match_result).start_hole
              /\ row.finalized = Val(match_result).finalized

\* C25 witness: finalize_match has finalized the A-vs-B result of a foursome
\* with recorded holes and stored a finalized C-vs-D row next to the
\* unfinalized one.
C25_Witness ==
    /\ response.op = "finalize"
    /\ IsSome(match_result) /\ Val(match_result).finalized
    /\ IsSome(cd_match_result) /\ ~Val(cd_match_result).finalized
    /\ Len(cd_finalized_results) = 1
    /\ cd_finalized_results[1].result.finalized

\* What _refresh_standings_cache would store now.
AggregatedNow ==
    _refresh_standings_cache(match_result, player_hole_scores, hole_scores, players,
                             course_holes)

\* C26: after a hole submission, finalize, reset, bonus update or deletion of
\* match results has been served, the standings cache holds what the
\* aggregator computes from the stored results and hole records.
C26_CacheFollowsResults ==
    response.op \in {"submit", "finalize", "reset", "bonus", "delete", "cleanup"} =>
        standings_cache = AggregatedNow

\* C26 witness: the results of the tournament were deleted while the cache
\* credited a player with a match.
C26_Witness ==
    /\ response.op = "cleanup"
    /\ match_result = None
    /\ standings_cache["P1"].matches = 1

\* C27: after insert_hole_scores the table holds at most one row per hole
\* number, and the rows of the holes the batch names are rows of the batch.
C27_OneRowPerHole ==
    Returned("insert_hole_scores") =>
        /\ \A i, j \in DOMAIN Val(ret) :
               Val(ret)[i].hole_number = Val(ret)[j].hole_number => i = j
        /\ \A i \in DOMAIN Val(ret) :
               Val(ret)[i].hole_number \in NumbersOf(arg.hole_entries) =>
                   \E k \in DOMAIN arg.hole_entries : arg.hole_entries[k] = Val(ret)[i]

\* C27 witness: a batch that names one hole twice with different scores was
\* inserted into a table that held one row of that hole, and both entries
\* are stored.
C27_Witness ==
    /\ Returned("insert_hole_scores")
    /\ Len(arg.hole_entries) = 2
    /\ arg.hole_entries[1].hole_number = arg.hole_entries[2].hole_number
    /\ arg.hole_entries[1] # arg.hole_entries[2]
    /\ \E i \in DOMAIN arg.stored : arg.stored[i].hole_number = arg.hole_entries[1].hole_number
    /\ Cardinality({i \in DOMAIN Val(ret) :
                       Val(ret)[i].hole_number = arg.hole_entries[1].hole_number}) = 2

\* Every submission in flight has made all of its writes.
AllServed ==
    /\ in_flight # << >>
    /\ \A r \in DOMAIN in_flight : in_flight[r].pc = "done"

\* The match result and bonus row one recompute from the stored holes leaves.
RecomputedOnce ==
    _recompute_match_result_from_holes(Val(match_result),
        fetch_hole_scores(player_hole_scores, hole_scores), match_bonus, players,
        course_holes)

CreditedBonus(result, recorded_holes) ==
    _apply_bonus_constraints(score_outcome(result.player_a_points, result.player_b_points),
        result.player_a_points, result.player_b_points, recorded_holes,
        PyOr(result.hole_count, 18), None)

\* The match has as many recorded holes as its length.
RoundComplete ==
    /\ IsSome(match_result)
    /\ RecordedCount = PyOr(Val(match_result).hole_count, 18)

\* C29: once the holes of a match, submitted one at a time with no manual bonus,
\* number match_length, the stored match result carries the bonus computed from
\* its final points, the bonus the standings aggregator credits for the match.
C29_CompleteMatchCarriesBonus ==
    RoundComplete =>
        /\ Val(match_result).player_a_bonus
             = CreditedBonus(Val(match_result), RecordedCount).player_a_bonus
        /\ Val(match_result).player_b_bonus
             = CreditedBonus(Val(match_result), RecordedCount).player_b_bonus

\* A full card whose winner has at least 5 points (10 half units).
C29_Witness ==
    /\ RoundComplete
    /\ response.op = "submit"
    /\ Val(match_result).winner = "A"
    /\ Val(match_result).player_a_points >= 10

\* The points of the recorded holes of the match, hole by hole from the stored
\* nets, summed for each side.
RecordedHolePoints ==
    RowPointTotals([i \in DOMAIN StoredHoles |->
                       [net_a |-> StoredHoles[i].player_a_net,
                        net_b |-> StoredHoles[i].player_b_net]])

\* C30: in every reachable state the stored match result has, for each side,
\* total = points + bonus, and its points are the sum of the per-hole points of
\* its recorded holes; finalize included.
C30_TotalsAndPointsFromHoles ==
    IsSome(match_result) =>
        /\ Val(match_result).player_a_total
             = Val(match_result).player_a_points + Val(match_result).player_a_bonus
        /\ Val(match_result).player_b_total
             = Val(match_result).player_b_points + Val(match_result).player_b_bonus
        /\ Val(match_result).player_a_points = RecordedHolePoints.points_a
        /\ Val(match_result).player_b_points = RecordedHolePoints.points_b

\* The match was reset while a hole was recorded for it.
C30_Witness ==
    /\ response.op = "reset"
    /\ IsSome(match_result)
    /\ StoredHoles # << >>

====
